---- MODULE Spec2Model ----
(***************************************************************************)
(* cryptopilot: the market-data synchronisation core.                      *)
(*   - utils/retry.py        retry_with_backoff (RetryPolicy)              *)
(*   - database/repository.py, database/connection.py                     *)
(*                           Repository.insert_market_data, Transaction    *)
(*   - collectors/market_data.py   MarketDataCollector.collect             *)
(*   - collectors/gap_filler.py    GapFiller.detect_gaps_recent,           *)
(*                                 GapFiller.fill_gaps_recent              *)
(* Time and delays are integers (seconds); an optional value (Python's     *)
(* None | x) is a sequence of length 0 or 1.                               *)
(***************************************************************************)
EXTENDS Integers, Sequences, FiniteSets, TLC

VARIABLES
    \* ---- retry_with_backoff ----
    config,          \* the RetryConfig of the call
    rstate,          \* position of the call: Attempting / Sleeping / terminal
    attempt,         \* the loop variable of "for attempt in range(max_retries + 1)"
    last_exception,  \* Optional error
    delay,           \* the delay being slept (meaningful while Sleeping)
    outcomes,        \* history: outcome of every invocation of func, in order
    sleeps,          \* history: every delay handed to asyncio.sleep, in order
    raised,          \* Optional error propagated to the caller
    returned,        \* Optional result returned to the caller
    \* ---- Repository.insert_market_data over the market_data table ----
    market_data,     \* the committed rows of table market_data
    ipc,             \* position of the call: idle / loop / tx_open / tx_exit
    records,         \* argument records of the current (or last) call
    batch_size,      \* the effective batch_size of the call
    chunk_start,     \* the loop variable i of "for i in range(0, len(params), batch_size)"
    total_inserted,
    tx_rows,         \* rows written by the open transaction, not yet committed
    tx_failed,       \* an exception is pending inside the "async with tx" block
    rowcount,        \* cursor.rowcount of the last executemany
    executed,        \* history: number of executemany invocations of the call
    pre,             \* history: market_data when the call started
    first,           \* history: Optional [pre, result] of the call this one repeats
    discarded,       \* history: rows of the call's transaction that were rolled back
    outcome,         \* Optional [kind, value]: how the last call ended
    \* ---- one run of MarketDataCollector.collect or of the GapFiller ----
    pc,              \* position of the run: idle / c_* (collect) / g_* (gap filler) / ended
    run,             \* which entry point runs: none / collect / detect / fill
    now,             \* "now = datetime.now(UTC)" of the run
    symbols,         \* argument symbols (the one symbol of a gap-filler run)
    timeframe,       \* argument timeframe
    lookback_days,
    update_all,
    dry_run,
    coll_batch,      \* self._batch_size of the collector
    idx,             \* position of "for raw_symbol in symbols" (1-based)
    start,           \* Optional start computed for the current symbol
    candles,         \* the candles the last fetch returned
    results,         \* the list collect builds; the value a gap-filler run returns
    error,           \* Optional error the run raised
    log,             \* history: storage and provider calls of the run, in order
    run_pre,         \* history: market_data when the run started
    complete,        \* history: every fetch of the run returned the whole window
    aligned,         \* history: every fetch of the run started right after the stored series
    prior,           \* history: Optional facts about the interrupted run this one resumes
    gaps,            \* result.gaps of the gap-filler run
    gap_idx,         \* position of "for gap in result.gaps" (1-based)
    fill_inserted,   \* total_inserted of fill_gaps_recent
    \* ---- PortfolioManager ----
    trades,          \* the rows of table trades, in insertion order
    trade_out        \* Optional outcome of the last record_trade call

storeVars == <<market_data, ipc, records, batch_size, chunk_start, total_inserted,
               tx_rows, tx_failed, rowcount, executed, pre, first, discarded,
               outcome>>

retryVars == <<config, rstate, attempt, last_exception, delay, outcomes, sleeps,
               raised, returned>>

runVars == <<pc, run, now, symbols, timeframe, lookback_days, update_all, dry_run,
             coll_batch, idx, start, candles, results, error, log, run_pre,
             complete, aligned, prior, gaps, gap_idx, fill_inserted>>

portfolioVars == <<trades, trade_out>>

vars == <<retryVars, storeVars, runVars, portfolioVars>>

\* The variables a retry_with_backoff call does not touch, and those an
\* insert_market_data call does not touch.
outsideRetry == <<storeVars, runVars, portfolioVars>>
outsideStore == <<retryVars, runVars, portfolioVars>>

None == <<>>
Some(x) == <<x>>

\* No trade is recorded and record_trade was not called.
PortfolioEmpty ==
    /\ trades = <<>>
    /\ trade_out = None

(***************************************************************************)
(* providers/base.py: the exception classes.                               *)
(***************************************************************************)
ExceptionClasses ==
    {"ProviderError", "RateLimitError", "InvalidSymbolError", "ValueError"}

\* The classes an instance of cls is an instance of (the class and its bases).
Bases(cls) ==
    CASE cls = "ProviderError"      -> {"ProviderError", "Exception"}
      [] cls = "RateLimitError"     -> {"RateLimitError", "ProviderError", "Exception"}
      [] cls = "InvalidSymbolError" -> {"InvalidSymbolError", "ProviderError", "Exception"}
      [] OTHER                      -> {cls, "Exception"}

\* isinstance(e, classes), the test of an "except classes" clause.
IsInstance(e, classes) == Bases(e.cls) \cap classes # {}

\* Bounds of the explored inputs.
MaxRetriesBound == 3
RetryAfterHints == {0, 5}
BaseDelays == {1, 2}
MaxDelays == {3, 60}
ExponentialBases == {2, 3}
RetryOnChoices ==
    { {"RateLimitError", "ProviderError"}, {}, {"ValueError"}, {"InvalidSymbolError"} }

\* The errors func can raise: RateLimitError carries retry_after (int | None).
Errors ==
    {[cls |-> "RateLimitError", retry_after |-> h] :
        h \in {None} \cup {Some(x) : x \in RetryAfterHints}}
    \cup {[cls |-> c, retry_after |-> None] :
            c \in ExceptionClasses \ {"RateLimitError"}}

RuntimeError == [cls |-> "RuntimeError", retry_after |-> None]

\* RetryConfig.__init__ and its defaults.
DefaultMaxRetries == 3
DefaultBaseDelay == 1
DefaultMaxDelay == 60
DefaultExponentialBase == 2
DefaultRetryOn == {"RateLimitError", "ProviderError"}

RetryConfig(mr, bd, md, eb, ro) ==
    [max_retries |-> mr, base_delay |-> bd, max_delay |-> md,
     exponential_base |-> eb, retry_on |-> ro]

DefaultRetryConfig ==
    RetryConfig(DefaultMaxRetries, DefaultBaseDelay, DefaultMaxDelay,
                DefaultExponentialBase, DefaultRetryOn)

RetryConfigs ==
    {RetryConfig(mr, bd, md, eb, ro) :
        mr \in {-1} \cup (0..MaxRetriesBound), bd \in BaseDelays, md \in MaxDelays,
        eb \in ExponentialBases, ro \in RetryOnChoices}
    \cup {DefaultRetryConfig}

RECURSIVE Pow(_, _)
Pow(b, n) == IF n = 0 THEN 1 ELSE b * Pow(b, n - 1)

Min(a, b) == IF a <= b THEN a ELSE b

\* Bug variant: the delay is not capped by max_delay.
calculate_backoff_uncapped(n, cfg) ==
    cfg.base_delay * Pow(cfg.exponential_base, n)

\* Bug variant: the exponent counts attempts from 1.
calculate_backoff_from_one(n, cfg) ==
    Min(cfg.base_delay * Pow(cfg.exponential_base, n + 1), cfg.max_delay)

\* calculate_backoff(attempt, config)
calculate_backoff(n, cfg) ==
    Min(cfg.base_delay * Pow(cfg.exponential_base, n), cfg.max_delay)

\* Bug variant: "if e.retry_after:" (truthiness) instead of "is not None".
RateLimitDelayTruthy(e, n, cfg) ==
    IF e.retry_after # None /\ e.retry_after[1] # 0
    THEN e.retry_after[1]
    ELSE calculate_backoff(n, cfg)

\* The delay chosen in the "except RateLimitError" clause.
RateLimitDelay(e, n, cfg) ==
    IF e.retry_after # None THEN e.retry_after[1] ELSE calculate_backoff(n, cfg)

\* Bug variant: off by one, sleeping (and looping) once more.
MaySleepOffByOne(n, cfg) == n <= cfg.max_retries

\* "if attempt < config.max_retries", the guard of both sleeps.
MaySleep(n, cfg) == n < cfg.max_retries

(***************************************************************************)
(* retry_with_backoff                                                      *)
(***************************************************************************)
\* No retry_with_backoff call is in progress.
RetryIdle ==
    /\ config = DefaultRetryConfig
    /\ rstate = "Start"
    /\ attempt = 0
    /\ last_exception = None
    /\ delay = 0
    /\ outcomes = <<>>
    /\ sleeps = <<>>
    /\ raised = None
    /\ returned = None

RetryInit ==
    /\ config \in RetryConfigs
    /\ rstate = "Start"
    /\ attempt = 0
    /\ last_exception = None
    /\ delay = 0
    /\ outcomes = <<>>
    /\ sleeps = <<>>
    /\ raised = None
    /\ returned = None

\* The for loop is entered; with max_retries < 0 the range is empty and the
\* code falls through to "raise RuntimeError".
RetryStart ==
    /\ rstate = "Start"
    /\ IF config.max_retries + 1 > 0
       THEN /\ rstate' = "Attempting"
            /\ raised' = raised
       ELSE /\ rstate' = "Failed"
            /\ raised' = Some(RuntimeError)
    /\ UNCHANGED <<config, attempt, last_exception, delay, outcomes, sleeps, returned>>
    /\ UNCHANGED outsideRetry

\* Bug variant: the result is kept but not returned; the loop goes on.
AttemptSucceedsNoReturn ==
    /\ rstate = "Attempting"
    /\ outcomes' = Append(outcomes, None)
    /\ IF attempt < config.max_retries
       THEN /\ rstate' = "Attempting"
            /\ attempt' = attempt + 1
            /\ returned' = returned
       ELSE /\ rstate' = "Success"
            /\ attempt' = attempt
            /\ returned' = Some("result")
    /\ UNCHANGED <<config, last_exception, delay, sleeps, raised>>
    /\ UNCHANGED outsideRetry

\* "return await func(...)": the attempt succeeds.
AttemptSucceeds ==
    /\ rstate = "Attempting"
    /\ outcomes' = Append(outcomes, None)
    /\ rstate' = "Success"
    /\ returned' = Some("result")
    /\ UNCHANGED <<config, attempt, last_exception, delay, sleeps, raised>>
    /\ UNCHANGED outsideRetry

\* What follows a handled (retryable) error e at attempt n with delay d:
\* sleep when attempt < max_retries, else leave the loop and raise last_exception.
AfterRetryable(e, d) ==
    /\ last_exception' = Some(e)
    /\ IF MaySleep(attempt, config)
       THEN /\ rstate' = "Sleeping"
            /\ delay' = d
            /\ sleeps' = Append(sleeps, d)
            /\ raised' = raised
       ELSE /\ rstate' = "Exhausted"
            /\ raised' = Some(e)
            /\ UNCHANGED <<delay, sleeps>>

\* "except RateLimitError as e"
AttemptRateLimited ==
    /\ rstate = "Attempting"
    /\ \E e \in Errors :
        /\ IsInstance(e, {"RateLimitError"})
        /\ outcomes' = Append(outcomes, Some(e))
        /\ AfterRetryable(e, RateLimitDelay(e, attempt, config))
    /\ UNCHANGED <<config, attempt, returned>>
    /\ UNCHANGED outsideRetry

\* "except config.retry_on as e"
AttemptRetryOn ==
    /\ rstate = "Attempting"
    /\ \E e \in Errors :
        /\ ~IsInstance(e, {"RateLimitError"})
        /\ IsInstance(e, config.retry_on)
        /\ outcomes' = Append(outcomes, Some(e))
        /\ AfterRetryable(e, calculate_backoff(attempt, config))
    /\ UNCHANGED <<config, attempt, returned>>
    /\ UNCHANGED outsideRetry

\* "except Exception as e: raise"
AttemptUnexpected ==
    /\ rstate = "Attempting"
    /\ \E e \in Errors :
        /\ ~IsInstance(e, {"RateLimitError"})
        /\ ~IsInstance(e, config.retry_on)
        /\ outcomes' = Append(outcomes, Some(e))
        /\ rstate' = "NonRetryable"
        /\ raised' = Some(e)
    /\ UNCHANGED <<config, attempt, last_exception, delay, sleeps, returned>>
    /\ UNCHANGED outsideRetry

\* Bug variant: the same attempt number is tried again after the sleep.
SleepDoneSameAttempt ==
    /\ rstate = "Sleeping"
    /\ attempt' = attempt
    /\ rstate' = "Attempting"
    /\ UNCHANGED <<config, last_exception, delay, outcomes, sleeps, raised, returned>>
    /\ UNCHANGED outsideRetry

\* "await asyncio.sleep(delay)" completes; the loop takes its next iteration.
SleepDone ==
    /\ rstate = "Sleeping"
    /\ attempt' = attempt + 1
    /\ rstate' = "Attempting"
    /\ UNCHANGED <<config, last_exception, delay, outcomes, sleeps, raised, returned>>
    /\ UNCHANGED outsideRetry

RetryNext ==
    \/ RetryStart
    \/ AttemptSucceeds
    \/ AttemptRateLimited
    \/ AttemptRetryOn
    \/ AttemptUnexpected
    \/ SleepDone

RetryTerminal == rstate \in {"Success", "Exhausted", "NonRetryable", "Failed"}

\* The number of invocations of func so far.
Calls == Len(outcomes)

(***************************************************************************)
(* database/models.py, database/repository.py, database/connection.py:     *)
(* MarketDataRecord, Repository.insert_market_data, Transaction.           *)
(*                                                                         *)
(* A datetime is [wall, tz]: wall-clock seconds and an Optional UTC offset *)
(* (None: a naive datetime).  A stored row holds the ISO text of the UTC   *)
(* instant, represented by the instant, and the decimal texts of the       *)
(* prices, represented by the numbers.                                     *)
(***************************************************************************)
Hour == 3600

DateTime(w, tz) == [wall |-> w, tz |-> tz]

\* str.upper() on the symbols in use.
Upper(sym) ==
    CASE sym = "btc" -> "BTC"
      [] sym = "eth" -> "ETH"
      [] OTHER       -> sym

\* MarketDataRecord(...): the symbol_uppercase validator runs on construction.
MarketDataRecord(sym, dt, ohlcv, tf, prov) ==
    [symbol |-> Upper(sym), timestamp |-> dt, ohlcv |-> ohlcv,
     timeframe |-> tf, provider |-> prov]

\* Two candles' worth of values for the same bucket.
CandleA == [open |-> 1, high |-> 2, low |-> 1, close |-> 2, volume |-> 0]
CandleB == [open |-> 2, high |-> 3, low |-> 1, close |-> 1, volume |-> 5]

\* The records the explored calls are made of: two spellings of one instant
\* with different values, a second instant, a second symbol.
RecordUniverse ==
    { MarketDataRecord("BTC", DateTime(0, None), CandleA, "1h", "coingecko"),
      MarketDataRecord("btc", DateTime(Hour, Some(Hour)), CandleB, "1h", "coingecko"),
      MarketDataRecord("BTC", DateTime(Hour, Some(0)), CandleA, "1h", "coingecko"),
      MarketDataRecord("ETH", DateTime(0, Some(0)), CandleA, "1h", "coingecko") }

MaxRecords == 3
MaxInterleavedRecords == 2
MaxBatchSize == 2

RecordSeqs == UNION {[1..n -> RecordUniverse] : n \in 0..MaxRecords}

\* batch_size: int | None
BatchSizes == {None} \cup {Some(b) : b \in (-1)..MaxBatchSize}

\* _to_utc(dt): a naive datetime is taken as UTC, an aware one is converted.
to_utc(dt) == IF dt.tz = None THEN dt.wall ELSE dt.wall - dt.tz[1]

\* One tuple of params (repository.py, the loop over records).
ParamsOf(rec) ==
    [symbol |-> Upper(rec.symbol), timestamp |-> to_utc(rec.timestamp),
     ohlcv |-> rec.ohlcv, timeframe |-> rec.timeframe, provider |-> rec.provider]

Params(recs) == [k \in 1..Len(recs) |-> ParamsOf(recs[k])]

\* The uniqueness key of table market_data.
UniqueKey(row) == <<row.symbol, row.timeframe, row.provider, row.timestamp>>

Keys(rows) == {UniqueKey(r) : r \in rows}

\* Bug variant: INSERT OR REPLACE, a conflicting row takes the place of the
\* stored one.
RECURSIVE InsertOrReplace(_, _)
InsertOrReplace(table, rows) ==
    IF rows = <<>> THEN [added |-> {}, rowcount |-> 0]
    ELSE LET r == Head(rows)
             old == {x \in table : UniqueKey(x) = UniqueKey(r)}
             rest == InsertOrReplace((table \ old) \cup {r}, Tail(rows))
         IN [added |-> rest.added \cup {r}, rowcount |-> rest.rowcount + 1]

\* "INSERT OR IGNORE INTO market_data ..." run by executemany over rows, on a
\* table whose visible rows are table: the rows added (a row whose key is
\* present is skipped) and the cursor's rowcount (rows actually inserted).
RECURSIVE InsertOrIgnore(_, _)
InsertOrIgnore(table, rows) ==
    IF rows = <<>> THEN [added |-> {}, rowcount |-> 0]
    ELSE LET r == Head(rows) IN
         IF UniqueKey(r) \in Keys(table)
         THEN InsertOrIgnore(table, Tail(rows))
         ELSE LET rest == InsertOrIgnore(table \cup {r}, Tail(rows))
              IN [added |-> rest.added \cup {r}, rowcount |-> rest.rowcount + 1]

\* Bug variant: the slice loses its last element.
ChunkShort(params, i, bs) ==
    SubSeq(params, i + 1, Min(i + bs, Len(params)) - 1)

\* chunk = params[i : i + batch_size]
Chunk(params, i, bs) == SubSeq(params, i + 1, Min(i + bs, Len(params)))

\* Bug variant: every row of the chunk is counted.
CountedAll(cnt, chunk) == Len(chunk)

\* What "total_inserted += cursor.rowcount" adds for a chunk.
Counted(cnt, chunk) == cnt

\* "if batch_size is None or batch_size <= 0: batch_size = len(params)"
EffectiveBatchSize(bs, params) ==
    IF bs = None \/ bs[1] <= 0 THEN Len(params) ELSE bs[1]

Return(v) == Some([kind |-> "return", value |-> v])
Raise(e) == Some([kind |-> "raise", value |-> e])
Interrupted == Some([kind |-> "interrupted", value |-> "killed"])

StoreInit ==
    /\ market_data = {}
    /\ ipc = "idle"
    /\ records = <<>>
    /\ batch_size = 0
    /\ chunk_start = 0
    /\ total_inserted = 0
    /\ tx_rows = {}
    /\ tx_failed = FALSE
    /\ rowcount = 0
    /\ executed = 0
    /\ pre = {}
    /\ first = None
    /\ discarded = {}
    /\ outcome = None

\* insert_market_data(recs, bs) is called: "if not records: return 0", else
\* the params are built and the chunk loop starts at i = 0.
BeginInsertCall(recs, bs, repeats) ==
    /\ ipc = "idle"
    /\ records' = recs
    /\ pre' = market_data
    /\ first' = repeats
    /\ discarded' = {}
    /\ chunk_start' = 0
    /\ total_inserted' = 0
    /\ executed' = 0
    /\ rowcount' = 0
    /\ tx_rows' = {}
    /\ tx_failed' = FALSE
    /\ IF recs = <<>>
       THEN /\ ipc' = "idle"
            /\ batch_size' = 0
            /\ outcome' = Return(0)
       ELSE /\ ipc' = "loop"
            /\ batch_size' = EffectiveBatchSize(bs, Params(recs))
            /\ outcome' = None
    /\ UNCHANGED market_data

\* The call made on its own, outside a collector run.
BeginInsert(recs, bs, repeats) ==
    /\ BeginInsertCall(recs, bs, repeats)
    /\ UNCHANGED outsideStore

\* A new call; the previous call's result has been dropped by its caller.
InsertCall ==
    /\ outcome = None
    /\ \E recs \in RecordSeqs, bs \in BatchSizes : BeginInsert(recs, bs, None)

\* The locals and the result of an ended call are gone.
DropCall ==
    /\ records' = <<>>
    /\ batch_size' = 0
    /\ chunk_start' = 0
    /\ total_inserted' = 0
    /\ tx_failed' = FALSE
    /\ rowcount' = 0
    /\ executed' = 0
    /\ pre' = {}
    /\ first' = None
    /\ discarded' = {}
    /\ outcome' = None

\* The caller is done with the ended call: its result and locals are gone,
\* only the table remains.
CallEnds ==
    /\ ipc = "idle"
    /\ outcome # None
    /\ DropCall
    /\ UNCHANGED <<market_data, ipc, tx_rows>>
    /\ UNCHANGED outsideStore

\* The call that just returned is made again with the same records.
RepeatCall ==
    /\ outcome # None
    /\ outcome[1].kind = "return"
    /\ \E bs \in BatchSizes :
        BeginInsert(records, bs, Some([pre |-> pre, result |-> outcome[1].value]))

\* "tx = await self._db.transaction(); async with tx as conn:" -- __aenter__
\* connects and runs BEGIN.
TxEnter ==
    /\ ipc = "loop"
    /\ ipc' = "tx_open"
    /\ tx_rows' = {}
    /\ tx_failed' = FALSE
    /\ UNCHANGED <<market_data, records, batch_size, chunk_start, total_inserted,
                   rowcount, executed, pre, first, outcome>>
    /\ UNCHANGED discarded
    /\ UNCHANGED outsideStore

\* __aenter__ raises (the connection cannot be opened): nothing was written,
\* __aexit__ does not run and the error leaves insert_market_data.
TxEnterFails ==
    /\ ipc = "loop"
    /\ ipc' = "idle"
    /\ outcome' = Raise("OperationalError")
    /\ UNCHANGED <<market_data, records, batch_size, chunk_start, total_inserted,
                   tx_rows, tx_failed, rowcount, executed, pre, first>>
    /\ UNCHANGED discarded
    /\ UNCHANGED outsideStore

\* "cursor = await conn.executemany(query, chunk)" runs to its end.
ExecuteMany ==
    /\ ipc = "tx_open"
    /\ LET chunk == Chunk(Params(records), chunk_start, batch_size)
           done == InsertOrIgnore(market_data \cup tx_rows, chunk)
       IN /\ tx_rows' = tx_rows \cup done.added
          /\ rowcount' = done.rowcount
    /\ executed' = executed + 1
    /\ ipc' = "tx_exit"
    /\ UNCHANGED <<market_data, records, batch_size, chunk_start, total_inserted,
                   tx_failed, pre, first, outcome>>
    /\ UNCHANGED discarded
    /\ UNCHANGED outsideStore

\* executemany raises after writing the first j rows of the chunk (disk or
\* lock error, cancellation): the exception is pending in the with block.
ExecuteManyFails ==
    /\ ipc = "tx_open"
    /\ LET chunk == Chunk(Params(records), chunk_start, batch_size) IN
       \E j \in 0..(Len(chunk) - 1) :
          LET done == InsertOrIgnore(market_data \cup tx_rows, SubSeq(chunk, 1, j))
          IN tx_rows' = tx_rows \cup done.added
    /\ executed' = executed + 1
    /\ tx_failed' = TRUE
    /\ ipc' = "tx_exit"
    /\ UNCHANGED <<market_data, records, batch_size, chunk_start, total_inserted,
                   rowcount, pre, first, outcome>>
    /\ UNCHANGED discarded
    /\ UNCHANGED outsideStore

\* Bug variant of __aexit__: commits although an exception is pending.
AexitCommitsOnError ==
    /\ ipc = "tx_exit"
    /\ tx_failed
    /\ market_data' = market_data \cup tx_rows
    /\ tx_rows' = {}
    /\ ipc' = "idle"
    /\ outcome' = Raise("OperationalError")
    /\ UNCHANGED <<records, batch_size, chunk_start, total_inserted, tx_failed,
                   rowcount, executed, pre, first>>
    /\ discarded' = {}
    /\ UNCHANGED outsideStore

\* Transaction.__aexit__ with exc_type set: rollback, the exception goes on
\* out of insert_market_data.
TxRollback ==
    /\ ipc = "tx_exit"
    /\ tx_failed
    /\ tx_rows' = {}
    /\ ipc' = "idle"
    /\ outcome' = Raise("OperationalError")
    /\ UNCHANGED <<market_data, records, batch_size, chunk_start, total_inserted,
                   tx_failed, rowcount, executed, pre, first>>
    /\ discarded' = tx_rows
    /\ UNCHANGED outsideStore

\* Transaction.__aexit__ with exc_type None: commit; then
\* "total_inserted += cursor.rowcount" and the loop goes to the next chunk or
\* "return total_inserted".
TxCommit ==
    /\ ipc = "tx_exit"
    /\ ~tx_failed
    /\ market_data' = market_data \cup tx_rows
    /\ tx_rows' = {}
    /\ LET chunk == Chunk(Params(records), chunk_start, batch_size)
           total == total_inserted + Counted(rowcount, chunk)
           next == chunk_start + batch_size
       IN /\ total_inserted' = total
          /\ chunk_start' = next
          /\ IF next < Len(records)
             THEN /\ ipc' = "loop"
                  /\ outcome' = outcome
             ELSE /\ ipc' = "idle"
                  /\ outcome' = Return(total)
    /\ UNCHANGED <<records, batch_size, tx_failed, rowcount, executed, pre, first>>
    /\ UNCHANGED discarded
    /\ UNCHANGED outsideStore

\* The commit itself raises: nothing of the transaction becomes durable and
\* the error leaves insert_market_data.
TxCommitFails ==
    /\ ipc = "tx_exit"
    /\ ~tx_failed
    /\ tx_rows' = {}
    /\ ipc' = "idle"
    /\ outcome' = Raise("OperationalError")
    /\ UNCHANGED <<market_data, records, batch_size, chunk_start, total_inserted,
                   tx_failed, rowcount, executed, pre, first>>
    /\ discarded' = tx_rows
    /\ UNCHANGED outsideStore

\* The run is interrupted (the process is stopped) while the call is at one
\* of its awaits: an open transaction is never committed.
Interrupt ==
    /\ ipc \in {"loop", "tx_open", "tx_exit"}
    /\ tx_rows' = {}
    /\ ipc' = "idle"
    /\ outcome' = Interrupted
    /\ UNCHANGED <<market_data, records, batch_size, chunk_start, total_inserted,
                   tx_failed, rowcount, executed, pre, first>>
    /\ discarded' = tx_rows
    /\ UNCHANGED outsideStore

\* A call of a run that other runs interleave with; its record list is bounded
\* separately.
InterleavedInsertCall ==
    /\ outcome = None
    /\ \E recs \in RecordSeqs, bs \in BatchSizes :
        /\ Len(recs) <= MaxInterleavedRecords
        /\ BeginInsert(recs, bs, None)

\* Another run's transaction commits between two transactions of this call
\* (SQLite serialises write transactions, so it cannot commit inside one).
\* It inserts one row; a longer chunk has the effect of several of these.
OtherRunCommits ==
    /\ ipc = "loop"
    /\ \E rec \in RecordUniverse :
        market_data' = market_data \cup InsertOrIgnore(market_data, Params(<<rec>>)).added
    /\ UNCHANGED <<ipc, records, batch_size, chunk_start, total_inserted, tx_rows,
                   tx_failed, rowcount, executed, pre, first, outcome>>
    /\ UNCHANGED discarded
    /\ UNCHANGED outsideStore

StoreNext ==
    \/ InsertCall
    \/ RepeatCall
    \/ CallEnds
    \/ TxEnter
    \/ TxEnterFails
    \/ ExecuteMany
    \/ ExecuteManyFails
    \/ TxCommit
    \/ TxCommitFails
    \/ TxRollback
    \/ Interrupt

(***************************************************************************)
(* Specifications.                                                         *)
(***************************************************************************)
\* No collector and no gap filler is running.
RunIdle ==
    /\ pc = "idle"
    /\ run = "none"
    /\ now = 0
    /\ symbols = <<>>
    /\ timeframe = "1h"
    /\ lookback_days = 0
    /\ update_all = FALSE
    /\ dry_run = FALSE
    /\ coll_batch = 0
    /\ idx = 0
    /\ start = None
    /\ candles = <<>>
    /\ results = <<>>
    /\ error = None
    /\ log = <<>>
    /\ run_pre = {}
    /\ complete = TRUE
    /\ aligned = TRUE
    /\ prior = None
    /\ gaps = <<>>
    /\ gap_idx = 0
    /\ fill_inserted = 0

\* One retry_with_backoff call, for every explored RetryConfig.
InitOfRetry == RetryInit /\ StoreInit /\ RunIdle /\ PortfolioEmpty

SpecRetry == InitOfRetry /\ [][RetryNext]_vars

\* The same call when every invocation of func and every asyncio.sleep
\* completes: a step that can be taken is taken.
SpecRetryFair == InitOfRetry /\ [][RetryNext]_vars /\ WF_vars(RetryNext)

\* insert_market_data calls one after another on one database.
InitOfStore == StoreInit /\ RetryIdle /\ RunIdle /\ PortfolioEmpty

SpecStore == InitOfStore /\ [][StoreNext]_vars

\* The same, with the commits of another run falling between the chunks.
InterleavedNext ==
    \/ InterleavedInsertCall
    \/ CallEnds
    \/ TxEnter
    \/ TxEnterFails
    \/ ExecuteMany
    \/ ExecuteManyFails
    \/ TxCommit
    \/ TxCommitFails
    \/ TxRollback
    \/ Interrupt
    \/ OtherRunCommits

SpecStoreInterleaved == InitOfStore /\ [][InterleavedNext]_vars

(***************************************************************************)
(* Properties of retry_with_backoff (checked under SpecRetry).             *)
(***************************************************************************)
IsError(o) == o # None
IsRateLimit(o) == o # None /\ IsInstance(o[1], {"RateLimitError"})
HasHint(o) == IsRateLimit(o) /\ o[1].retry_after # None
\* Listed in retryableErrorKinds (retry_on).
Listed(o) == o # None /\ IsInstance(o[1], config.retry_on)
\* Retryable: rate-limit class, or listed in retry_on.
Retryable(o) == IsRateLimit(o) \/ Listed(o)
AllRetryableFailures == \A i \in 1..Len(outcomes) : Retryable(outcomes[i])

\* C1: with max_retries = k >= 0 and an operation that fails on every attempt
\* with a retryable error, the operation is invoked exactly k+1 times, exactly
\* k sleeps happen (none after the final attempt), and the error of the last
\* attempt is raised; before the (k+1)-th failure the call is not over.
C1_RetryExhaustion ==
    (config.max_retries >= 0 /\ AllRetryableFailures) =>
        /\ Calls <= config.max_retries + 1
        /\ Len(sleeps) <= config.max_retries
        /\ (Calls <= config.max_retries => ~RetryTerminal)
        /\ (Calls = config.max_retries + 1 =>
                /\ rstate = "Exhausted"
                /\ Len(sleeps) = config.max_retries
                /\ raised = outcomes[Calls]
                /\ returned = None)
        /\ (RetryTerminal => Calls = config.max_retries + 1)

C1_Witness ==
    /\ rstate = "Exhausted"
    /\ config.max_retries = 3
    /\ Calls = 4
    /\ Len(sleeps) = 3
    /\ IsRateLimit(outcomes[1])
    /\ ~IsRateLimit(outcomes[4])
    /\ raised = outcomes[4]

\* C2: for every RetryConfig and every attempt n, an error whose kind is not in
\* retryableErrorKinds (retry_on) propagates immediately: it is the last
\* invocation (n+1 in total), no sleep follows it, and it is the error raised.
C2_UnlistedPropagates ==
    \A i \in 1..Len(outcomes) :
        (IsError(outcomes[i]) /\ ~Listed(outcomes[i])) =>
            /\ i = Calls
            /\ Len(sleeps) = i - 1
            /\ RetryTerminal
            /\ raised = outcomes[i]

\* C3: with the default RetryConfig, a fetch that fails with InvalidSymbolError
\* is never retried: one attempt, no backoff sleep, the error propagates.
C3_InvalidSymbolNotRetried ==
    \A i \in 1..Len(outcomes) :
        (config = DefaultRetryConfig /\ IsError(outcomes[i])
            /\ outcomes[i][1].cls = "InvalidSymbolError") =>
            /\ Calls = 1
            /\ sleeps = <<>>
            /\ raised = outcomes[i]

\* C4: a non-final attempt (attempt < max_retries) that fails with a rate-limit
\* error carrying retry_after = h is followed by a sleep of exactly h, whatever
\* base_delay, exponential_base, max_delay and the attempt number are.
C4_RetryAfterPrecedence ==
    \A i \in 1..Len(outcomes) :
        (HasHint(outcomes[i]) /\ i - 1 < config.max_retries) =>
            /\ Len(sleeps) >= i
            /\ sleeps[i] = outcomes[i][1].retry_after[1]
            /\ ((i = Calls /\ rstate = "Sleeping") => delay = sleeps[i])

\* A hint of 5 honoured at attempt 1 where the computed backoff is 3, and a
\* hint of 0 honoured at attempt 0.
C4_Witness ==
    /\ Len(sleeps) >= 2
    /\ HasHint(outcomes[1]) /\ sleeps[1] = 0
    /\ HasHint(outcomes[2]) /\ sleeps[2] = 5
    /\ config.max_delay = 3
    /\ config.base_delay * Pow(config.exponential_base, 1) # 5

\* C5: a success at attempt n <= max_retries after n retryable failures ends
\* the call at once: the result is returned, the operation was invoked exactly
\* n+1 times with exactly n sleeps, and no attempt or sleep follows.
C5_SuccessReturnsAtOnce ==
    \A i \in 1..Len(outcomes) :
        outcomes[i] = None =>
            /\ i = Calls
            /\ i - 1 <= config.max_retries
            /\ attempt = i - 1
            /\ Len(sleeps) = i - 1
            /\ \A j \in 1..(i - 1) : Retryable(outcomes[j])
            /\ rstate = "Success"
            /\ returned = Some("result")
            /\ raised = None

C5_Witness ==
    /\ rstate = "Success"
    /\ Calls = 3
    /\ Len(sleeps) = 2
    /\ config.max_retries = 3
    /\ outcomes[3] = None

\* C6: a non-final attempt n (counted from 0 over all error kinds) that fails
\* with a rate-limit error without a hint, or with another error listed in
\* retry_on, is followed by a sleep of min(base_delay * exponential_base^n,
\* max_delay).
C6_ExponentialBackoff ==
    \A i \in 1..Len(outcomes) :
        (Retryable(outcomes[i]) /\ ~HasHint(outcomes[i])
            /\ i - 1 < config.max_retries) =>
            LET raw == config.base_delay * Pow(config.exponential_base, i - 1) IN
            /\ Len(sleeps) >= i
            /\ sleeps[i] = IF raw <= config.max_delay THEN raw ELSE config.max_delay

\* Attempt 0 rate limited with a hint, attempt 1 rate limited without one,
\* attempt 2 a listed ProviderError whose backoff is capped by max_delay.
C6_Witness ==
    /\ Len(sleeps) = 3
    /\ HasHint(outcomes[1])
    /\ IsRateLimit(outcomes[2]) /\ ~HasHint(outcomes[2])
    /\ ~IsRateLimit(outcomes[3]) /\ Listed(outcomes[3])
    /\ config.base_delay = 1 /\ config.exponential_base = 2 /\ config.max_delay = 3
    /\ sleeps[2] = 2
    /\ sleeps[3] = 3

(***************************************************************************)
(* Properties of insert_market_data.                                       *)
(***************************************************************************)
RowsOf(recs) == {ParamsOf(recs[k]) : k \in 1..Len(recs)}
DistinctKeys(recs) ==
    \A j, k \in 1..Len(recs) :
        UniqueKey(ParamsOf(recs[j])) = UniqueKey(ParamsOf(recs[k])) => j = k
Returned == outcome # None /\ outcome[1].kind = "return"
Failed == outcome # None /\ outcome[1].kind \in {"raise", "interrupted"}

\* C7: for N >= 0 records with pairwise distinct keys none of which is stored,
\* the first insert_market_data call returns N, the immediately repeated call
\* with the same records returns 0, and the table after the second call is the
\* table after the first.
C7_InsertTwice ==
    (first # None /\ Returned /\ DistinctKeys(records)
        /\ Keys(RowsOf(records)) \cap Keys(first[1].pre) = {}) =>
        /\ first[1].result = Len(records)
        /\ outcome[1].value = 0
        /\ market_data = pre
        /\ market_data = first[1].pre \cup RowsOf(records)

C7_Witness ==
    /\ first # None
    /\ Returned
    /\ Len(records) = 2
    /\ DistinctKeys(records)
    /\ first[1].pre # {}
    /\ Keys(RowsOf(records)) \cap Keys(first[1].pre) = {}
    /\ first[1].result = 2
    /\ outcome[1].value = 0
    /\ batch_size = 1

\* C8: for any stored state S and any record sequence R (overlapping S, all
\* duplicates of S, or with repeated keys) and every batch_size, a call that
\* is not cut short by a storage failure returns the number of distinct keys
\* of R that were not in S and leaves the key set S union keys(R), the rows of
\* S untouched; a duplicate never makes executemany raise.
C8_DuplicatesSkipped ==
    /\ Returned =>
        /\ outcome[1].value = Cardinality(Keys(RowsOf(records)) \ Keys(pre))
        /\ Keys(market_data) = Keys(pre) \cup Keys(RowsOf(records))
        /\ pre \subseteq market_data
    /\ ipc = "tx_open" => ENABLED ExecuteMany

\* R repeats a key, overlaps S with other values, and is written one row per
\* transaction.
C8_Witness ==
    /\ Returned
    /\ Len(records) = 3
    /\ batch_size = 1
    /\ ~DistinctKeys(records)
    /\ Keys(RowsOf(records)) \cap Keys(pre) # {}
    /\ ~(RowsOf(records) \subseteq market_data)
    /\ outcome[1].value = 1

UniqueRows(rows) == \A r1, r2 \in rows : UniqueKey(r1) = UniqueKey(r2) => r1 = r2

\* C9: in every reachable state the table holds at most one row per key
\* (symbol, timeframe, provider, timestamp); a stored row is never changed
\* and never removed, also when a later call brings other values for its key.
C9_AppendOnly ==
    /\ [](UniqueRows(market_data) /\ UniqueRows(market_data \cup tx_rows))
    /\ [][market_data \subseteq market_data']_vars

\* A call that carried other values for a stored key has returned.
C9_Witness ==
    /\ Returned
    /\ \E r \in pre : \E k \in 1..Len(records) :
        /\ UniqueKey(ParamsOf(records[k])) = UniqueKey(r)
        /\ ParamsOf(records[k]).ohlcv # r.ohlcv
        /\ r \in market_data

\* C10: the records are written in consecutive chunks of batch_size, one
\* transaction each: at every moment exactly the records of the chunks before
\* the current one are persisted (never part of a chunk), and when the write of
\* chunk k fails or the run is interrupted during it, the chunks before k stay
\* persisted, nothing of chunk k is, no later chunk is attempted and the call
\* ends with the error instead of a result.
C10_ChunkAtomicity ==
    records # <<>> =>
        LET params == Params(records)
            k == chunk_start \div batch_size
            before == SubSeq(params, 1, Min(chunk_start, Len(params)))
        IN /\ batch_size >= 1
           /\ chunk_start = k * batch_size
           /\ pre \subseteq market_data
           /\ Keys(market_data) = Keys(pre) \cup {UniqueKey(before[n]) : n \in 1..Len(before)}
           /\ executed \in {k, k + 1}
           /\ Failed =>
                /\ chunk_start < Len(params)
                /\ ipc = "idle"
                /\ tx_rows = {}
           /\ Returned => (executed = k /\ chunk_start >= Len(params))

\* The second chunk failed half-way: its first row had been written and was
\* rolled back, the first chunk stays committed, the third was not attempted.
C10_Witness ==
    /\ outcome = Raise("OperationalError")
    /\ Len(records) = 3
    /\ batch_size = 1
    /\ chunk_start = 1
    /\ executed = 2
    /\ market_data # pre
    /\ DistinctKeys(records)

\* A further reachable case: a chunk of two rows failed after its first row,
\* and that row is not in the table.
C10_HalfWrittenRolledBack ==
    /\ outcome = Raise("OperationalError")
    /\ batch_size = 2
    /\ discarded # {}
    /\ Keys(discarded) \cap Keys(market_data) = {}

(***************************************************************************)
(* collectors/market_data.py: MarketDataCollector.                         *)
(*                                                                         *)
(* A run works through get_latest_timestamp, the retried provider fetch    *)
(* (the retry_with_backoff actions above) and insert_market_data (the      *)
(* transaction actions above), one symbol after the other.                 *)
(***************************************************************************)
Day == 24 * Hour
Week == 7 * Day

Timeframes == {"1h", "4h", "1d", "1w"}

\* _TIMEFRAME_DELTAS[timeframe]
TimeframeDelta(t) ==
    CASE t = "1h" -> Hour
      [] t = "4h" -> 4 * Hour
      [] t = "1d" -> Day
      [] t = "1w" -> Week

\* str.strip() on the symbols in use.
Strip(sym) ==
    CASE sym = "BTC " -> "BTC"
      [] sym = "btc " -> "btc"
      [] OTHER        -> sym

\* str.upper() on the symbols in use, trailing blank included.
UpperRaw(sym) == IF sym = "btc " THEN "BTC " ELSE Upper(sym)

\* "symbol = raw_symbol.upper().strip()"
NormalizeSymbol(raw) == Strip(UpperRaw(raw))

ProviderName == "coingecko"

MaxOf(S) == CHOOSE x \in S : \A y \in S : y <= x

\* Repository.get_latest_timestamp: the newest stored timestamp of the
\* series, or None.
get_latest_timestamp(table, sym, t, prov) ==
    LET series == {r.timestamp : r \in {x \in table : /\ x.symbol = Upper(sym)
                                                      /\ x.timeframe = t
                                                      /\ x.provider = prov}}
    IN IF series = {} THEN None ELSE Some(MaxOf(series))

\* Bug variant: the stored series is ignored, the window is the lookback
\* window.
ComputeStartFromLookback(latest, n, lookback, all, t) == n - lookback * Day

\* Bug variant: the window starts two intervals after the newest stored
\* candle.
ComputeStartSkipsOne(latest, n, lookback, all, t) ==
    IF latest = None THEN n - lookback * Day
    ELSE latest[1] + 2 * TimeframeDelta(t)

\* Bug variant: update_all is clamped to the lookback window like the
\* default mode.
ComputeStartClamped(latest, n, lookback, all, t) ==
    IF latest = None THEN n - lookback * Day
    ELSE IF n - lookback * Day >= latest[1] + TimeframeDelta(t)
         THEN n - lookback * Day
         ELSE latest[1] + TimeframeDelta(t)

\* The start of the fetch window of _collect_single.
ComputeStart(latest, n, lookback, all, t) ==
    IF latest = None THEN n - lookback * Day
    ELSE IF all THEN latest[1] + TimeframeDelta(t)
    ELSE LET candidate == n - lookback * Day
         IN IF candidate >= latest[1] + TimeframeDelta(t)
            THEN candidate
            ELSE latest[1] + TimeframeDelta(t)

\* Bug variant: a window that starts exactly now is still fetched.
WindowClosedStrict(s, n) == s > n

\* "if start >= now": nothing to fetch.
WindowClosed(s, n) == s >= n

\* Bug variant: the records are written in a dry run too.
WritesAlways(dry) == TRUE

\* "if dry_run: inserted = 0 / else: inserted = await insert_market_data(...)"
WritesRecords(dry) == ~dry

\* CollectionResult(...)
CollectionResult(sym, t, fetched, inserted, s, e) ==
    [symbol |-> sym, timeframe |-> t, candles_fetched |-> fetched,
     candles_inserted |-> inserted, start |-> s, end |-> e]

\* OHLCV(...) of providers/base.py.
OHLCV(ts, v) ==
    [timestamp |-> ts, open |-> v.open, high |-> v.high, low |-> v.low,
     close |-> v.close, volume |-> v.volume]

\* The Field constraints of OHLCV: gt=0 on the prices, ge=0 on the volume.
OHLCVValid(c) ==
    c.open > 0 /\ c.high > 0 /\ c.low > 0 /\ c.close > 0 /\ c.volume >= 0

\* info.data when the validator of field high runs: the fields declared
\* before high that validated (id, symbol, base_currency, timestamp, open);
\* of the prices only open.
DataBeforeHigh(c) == [open |-> c.open]

\* MarketDataRecord.validate_high: TRUE when the validator lets v pass.
validate_high(v, data) ==
    ~("low" \in DOMAIN data /\ v < data.low)

\* MarketDataRecord(...) validates: the Field constraints and validate_high.
RecordValid(c) ==
    /\ c.open > 0 /\ c.high > 0 /\ c.low > 0 /\ c.close > 0 /\ c.volume >= 0
    /\ validate_high(c.high, DataBeforeHigh(c))

\* _to_records(symbol, timeframe, candles)
ToRecords(sym, t, cs) ==
    [k \in 1..Len(cs) |->
        MarketDataRecord(sym, cs[k].timestamp,
                         [open |-> cs[k].open, high |-> cs[k].high,
                          low |-> cs[k].low, close |-> cs[k].close,
                          volume |-> cs[k].volume], t, ProviderName)]

\* ---- the provider, as far as a run can tell ----
\* A candle whose high is below its open and its low, and one with a price
\* of zero.
CandleInverted == [open |-> 2, high |-> 1, low |-> 3, close |-> 2, volume |-> 0]
CandleZero == [open |-> 0, high |-> 2, low |-> 1, close |-> 2, volume |-> 0]

\* The candles of every bucket of width iv whose start lies in [s, e],
\* oldest first, with values v.
GridCandles(s, e, iv, v) ==
    LET lo == (s + iv - 1) \div iv
        hi == e \div iv
    IN [k \in 1..(IF hi >= lo THEN hi - lo + 1 ELSE 0) |->
            OHLCV(DateTime((lo + k - 1) * iv, Some(0)), v)]

\* The provider that returns every candle of the requested window.
CompleteResponse(s, e, iv) == GridCandles(s, e, iv, CandleA)

\* What provider.get_ohlcv(symbol, timeframe, s, e) may return: the whole
\* window, nothing, only the newest candle, the window with the bucket that
\* contains s, the window with implausible prices.  A list holding a candle
\* that fails the OHLCV constraints cannot be built.
ProviderResponses(s, e, iv) ==
    LET full == CompleteResponse(s, e, iv)
        candidates ==
            { full, <<>>,
              IF full = <<>> THEN <<>> ELSE <<full[Len(full)]>>,
              GridCandles(s - iv + 1, e, iv, CandleB),
              GridCandles(s, e, iv, CandleInverted),
              GridCandles(s, e, iv, CandleZero) }
    IN {r \in candidates : \A k \in 1..Len(r) : OHLCVValid(r[k])}

\* ---- bounds and inputs of the explored runs ----
\* An instant that is a bucket start of every timeframe.
Base == 4 * Week
Stamp(t, k) == Base - k * TimeframeDelta(t)

MaxCollectorRetries == 1
CollectorBatchSize == 2
CollectorRetryConfig ==
    RetryConfig(MaxCollectorRetries, DefaultBaseDelay, DefaultMaxDelay,
                DefaultExponentialBase, DefaultRetryOn)

Row(sym, t, ts) ==
    ParamsOf(MarketDataRecord(sym, DateTime(ts, Some(0)), CandleA, t, ProviderName))

\* Stored series of BTC, as bucket numbers counted back from Base: empty,
\* contiguous ones ending at different distances from now, one with a hole.
CollectSeries == { {}, {3}, {2, 3}, {1, 2, 3}, {0, 1, 2, 3}, {1, 3} }

TableOf(t, btc, eth) ==
    {Row("BTC", t, Stamp(t, k)) : k \in btc} \cup {Row("ETH", t, Stamp(t, k)) : k \in eth}

CollectTables(t) ==
    {TableOf(t, btc, {}) : btc \in CollectSeries} \cup {TableOf(t, {1, 2}, {1})}

SymbolLists == { <<>>, <<"btc">>, <<"btc ", "ETH">>, <<"ETH", "btc">> }
LookbackChoices == {0, 1, 2}
NowChoices == {Base, Base + 60}

\* ---- pieces of state change shared by the run's actions ----
\* retry_with_backoff is not running.
RetryQuiet ==
    /\ rstate = "Idle"
    /\ attempt = 0
    /\ last_exception = None
    /\ delay = 0
    /\ outcomes = <<>>
    /\ sleeps = <<>>
    /\ raised = None
    /\ returned = None

\* The retry_with_backoff call has ended and its frame is gone.
DropRetry ==
    /\ rstate' = "Idle"
    /\ attempt' = 0
    /\ last_exception' = None
    /\ delay' = 0
    /\ outcomes' = <<>>
    /\ sleeps' = <<>>
    /\ raised' = None
    /\ returned' = None
    /\ UNCHANGED config

\* The call has ended and the next one is made at once.
RecallRetry ==
    /\ rstate' = "Start"
    /\ attempt' = 0
    /\ last_exception' = None
    /\ delay' = 0
    /\ outcomes' = <<>>
    /\ sleeps' = <<>>
    /\ raised' = None
    /\ returned' = None
    /\ UNCHANGED config

\* "await retry_with_backoff(self._provider.get_ohlcv, ...)" is called.
CallRetry ==
    /\ rstate' = "Start"
    /\ UNCHANGED <<config, attempt, last_exception, delay, outcomes, sleeps,
                   raised, returned>>

StoreAt(table) ==
    /\ market_data = table
    /\ ipc = "idle"
    /\ records = <<>>
    /\ batch_size = 0
    /\ chunk_start = 0
    /\ total_inserted = 0
    /\ tx_rows = {}
    /\ tx_failed = FALSE
    /\ rowcount = 0
    /\ executed = 0
    /\ pre = {}
    /\ first = None
    /\ discarded = {}
    /\ outcome = None

\* A call the run made: the operation, the symbol it was made for and what
\* went in or came out of it.
Event(op, sym, arg) == [op |-> op, symbol |-> sym, arg |-> arg]

CurrentSymbol == NormalizeSymbol(symbols[idx])

runParams == <<run, now, symbols, timeframe, lookback_days, update_all, dry_run,
               coll_batch, run_pre, prior>>
gapVars == <<gaps, gap_idx, fill_inserted>>

\* Bug variant: the result is put in front of the list.
PrependResult(res) ==
    /\ results' = <<res>> \o results
    /\ IF idx < Len(symbols)
       THEN /\ idx' = idx + 1
            /\ pc' = "c_latest"
       ELSE /\ idx' = idx
            /\ pc' = "done"
    /\ start' = None
    /\ candles' = <<>>
    /\ error' = error

\* "results.append(result)" and the for loop of collect moves on: the next
\* symbol's _collect_single awaits get_latest_timestamp, or "return results".
AppendResult(res) ==
    /\ results' = Append(results, res)
    /\ IF idx < Len(symbols)
       THEN /\ idx' = idx + 1
            /\ pc' = "c_latest"
       ELSE /\ idx' = idx
            /\ pc' = "done"
    /\ start' = None
    /\ candles' = <<>>
    /\ error' = error

\* Bug variant: the error is logged and the loop goes on with the next
\* symbol.
SwallowAndContinue(e) ==
    /\ IF idx < Len(symbols)
       THEN /\ idx' = idx + 1
            /\ pc' = "c_latest"
       ELSE /\ idx' = idx
            /\ pc' = "done"
    /\ start' = None
    /\ candles' = <<>>
    /\ UNCHANGED <<error, results>>

\* "except Exception as exc: ... raise" of collect.
RaiseFromCollect(e) ==
    /\ pc' = "raised"
    /\ error' = Some(e)
    /\ UNCHANGED <<idx, start, candles, results>>

\* collect(symbols, timeframe, lookback_days, update_all, dry_run) is called
\* at time n on a collector with batch size bs.
CollectCall(syms, lookback, all, dry, bs, n, resumes) ==
    /\ run' = "collect"
    /\ now' = n
    /\ symbols' = syms
    /\ lookback_days' = lookback
    /\ update_all' = all
    /\ dry_run' = dry
    /\ coll_batch' = bs
    /\ results' = <<>>
    /\ error' = None
    /\ log' = <<>>
    /\ run_pre' = market_data
    /\ complete' = TRUE
    /\ aligned' = TRUE
    /\ prior' = resumes
    /\ start' = None
    /\ candles' = <<>>
    /\ IF syms = <<>>
       THEN /\ idx' = 0
            /\ pc' = "done"
       ELSE /\ idx' = 1
            /\ pc' = "c_latest"
    /\ UNCHANGED <<timeframe, gapVars>>
    /\ UNCHANGED <<retryVars, storeVars, portfolioVars>>

StartCollect ==
    /\ pc = "idle"
    /\ \E syms \in SymbolLists, lookback \in LookbackChoices, all \in BOOLEAN,
          dry \in BOOLEAN, n \in NowChoices :
        CollectCall(syms, lookback, all, dry, CollectorBatchSize, n, None)

\* get_latest_timestamp returns and _collect_single computes start; with
\* "start >= now" the symbol is done, else the fetch is called.
LatestReturns ==
    /\ pc = "c_latest"
    /\ LET sym == CurrentSymbol
           latest == get_latest_timestamp(market_data, sym, timeframe, ProviderName)
           s == ComputeStart(latest, now, lookback_days, update_all, timeframe)
       IN /\ aligned' = (aligned /\ (latest = None
                                      \/ s = latest[1] + TimeframeDelta(timeframe)))
          /\ IF WindowClosed(s, now)
             THEN /\ AppendResult(CollectionResult(sym, timeframe, 0, 0, None, None))
                  /\ log' = Append(log, Event("latest", sym, [latest |-> latest, start |-> s]))
                  /\ UNCHANGED retryVars
             ELSE /\ pc' = "c_fetch"
                  /\ start' = Some(s)
                  /\ log' = log \o <<Event("latest", sym, [latest |-> latest, start |-> s]),
                                      Event("fetch", sym, [start |-> s, end |-> now])>>
                  /\ CallRetry
                  /\ UNCHANGED <<idx, candles, results, error>>
    /\ UNCHANGED <<portfolioVars, runParams, complete, gapVars>>
    /\ UNCHANGED storeVars

\* The read of get_latest_timestamp raises.
LatestFails ==
    /\ pc = "c_latest"
    /\ RaiseFromCollect("OperationalError")
    /\ log' = log \o <<Event("latest", CurrentSymbol, [raised |-> TRUE]),
                        Event("raised", CurrentSymbol, "OperationalError")>>
    /\ UNCHANGED <<portfolioVars, runParams, complete, aligned, gapVars>>
    /\ UNCHANGED <<retryVars, storeVars>>

\* retry_with_backoff returned the provider's candles: an empty list ends
\* the symbol; else _to_records, then the dry-run result or the call of
\* insert_market_data.
FetchReturns ==
    /\ pc = "c_fetch"
    /\ rstate = "Success"
    /\ DropRetry
    /\ \E resp \in ProviderResponses(start[1], now, TimeframeDelta(timeframe)) :
        LET sym == CurrentSymbol
            recs == ToRecords(sym, timeframe, resp)
            res(inserted) ==
                CollectionResult(sym, timeframe, Len(resp), inserted,
                                 Some(resp[1].timestamp),
                                 Some(resp[Len(resp)].timestamp))
        IN /\ complete' = (complete /\ resp = CompleteResponse(start[1], now,
                                                    TimeframeDelta(timeframe)))
           /\ IF resp = <<>>
              THEN /\ AppendResult(CollectionResult(sym, timeframe, 0, 0, None, None))
                   /\ UNCHANGED <<log, storeVars>>
              ELSE IF \E k \in 1..Len(resp) : ~RecordValid(resp[k])
              THEN /\ RaiseFromCollect("ValidationError")
                   /\ log' = Append(log, Event("raised", sym, "ValidationError"))
                   /\ UNCHANGED storeVars
              ELSE IF ~WritesRecords(dry_run)
              THEN /\ AppendResult(res(0))
                   /\ UNCHANGED <<log, storeVars>>
              ELSE /\ pc' = "c_insert"
                   /\ candles' = resp
                   /\ log' = Append(log, Event("insert", sym, Len(recs)))
                   /\ BeginInsertCall(recs, Some(coll_batch), None)
                   /\ UNCHANGED <<idx, start, results, error>>
    /\ UNCHANGED <<portfolioVars, runParams, aligned, gapVars>>

\* retry_with_backoff raised: retries exhausted or a non-retryable error.
FetchRaises ==
    /\ pc = "c_fetch"
    /\ rstate \in {"Exhausted", "NonRetryable", "Failed"}
    /\ RaiseFromCollect(raised[1])
    /\ log' = Append(log, Event("raised", CurrentSymbol, raised[1]))
    /\ UNCHANGED <<portfolioVars, runParams, complete, aligned, gapVars>>
    /\ UNCHANGED <<retryVars, storeVars>>

\* insert_market_data returned the number of rows inserted.
InsertReturns ==
    /\ pc = "c_insert"
    /\ ipc = "idle"
    /\ outcome # None
    /\ outcome[1].kind = "return"
    /\ AppendResult(CollectionResult(CurrentSymbol, timeframe, Len(candles),
                                     outcome[1].value,
                                     Some(candles[1].timestamp),
                                     Some(candles[Len(candles)].timestamp)))
    /\ DropCall
    /\ UNCHANGED <<market_data, ipc, tx_rows>>
    /\ UNCHANGED <<portfolioVars, runParams, log, complete, aligned, gapVars>>
    /\ UNCHANGED retryVars

\* insert_market_data raised.
InsertRaises ==
    /\ pc = "c_insert"
    /\ ipc = "idle"
    /\ outcome # None
    /\ outcome[1].kind = "raise"
    /\ RaiseFromCollect(outcome[1].value)
    /\ log' = Append(log, Event("raised", CurrentSymbol, outcome[1].value))
    /\ UNCHANGED <<portfolioVars, runParams, complete, aligned, gapVars>>
    /\ UNCHANGED <<retryVars, storeVars>>

\* The process is stopped while the run waits at one of its awaits (the
\* storage read, the provider call, the backoff sleep, a transaction): the
\* open transaction is never committed, everything in memory is gone.
RunInterrupted ==
    /\ pc \in {"c_latest", "c_fetch", "c_insert", "g_list", "g_fetch", "g_insert"}
    /\ pc' = "interrupted"
    /\ DropRetry
    /\ DropCall
    /\ ipc' = "idle"
    /\ tx_rows' = {}
    /\ idx' = 0
    /\ start' = None
    /\ candles' = <<>>
    /\ results' = <<>>
    /\ gaps' = <<>>
    /\ gap_idx' = 0
    /\ fill_inserted' = 0
    /\ UNCHANGED <<market_data, error, log, complete, aligned>>
    /\ UNCHANGED <<portfolioVars, runParams>>

\* The steps of the retried fetch and of the chunk transactions.
FetchSteps ==
    \/ RetryStart
    \/ AttemptSucceeds
    \/ AttemptRateLimited
    \/ AttemptRetryOn
    \/ AttemptUnexpected
    \/ SleepDone

InsertSteps ==
    \/ TxEnter
    \/ TxEnterFails
    \/ ExecuteMany
    \/ ExecuteManyFails
    \/ TxCommit
    \/ TxCommitFails
    \/ TxRollback

\* The steps of a collect run once it is called.
CollectSteps ==
    \/ LatestReturns
    \/ LatestFails
    \/ FetchSteps
    \/ FetchReturns
    \/ FetchRaises
    \/ InsertSteps
    \/ InsertReturns
    \/ InsertRaises
    \/ RunInterrupted

CollectNext ==
    \/ StartCollect
    \/ CollectSteps

\* A run that wrote for real, and the run made after it was interrupted:
\* collect is called again with update_all on the same symbols, at once or
\* one interval later.
ResumeSymbolLists == { <<"btc">>, <<"btc ", "ETH">> }

StartInterruptible ==
    /\ pc = "idle"
    /\ \E syms \in ResumeSymbolLists, lookback \in {1, 2}, all \in BOOLEAN,
          n \in NowChoices :
        CollectCall(syms, lookback, all, FALSE, CollectorBatchSize, n, None)

ResumeCollect ==
    /\ pc = "interrupted"
    /\ run = "collect"
    /\ prior = None
    /\ \E n \in {now, now + TimeframeDelta(timeframe)} :
        CollectCall(symbols, lookback_days, TRUE, FALSE, coll_batch, n,
                    Some([pre |-> run_pre, update_all |-> update_all,
                          complete |-> complete, aligned |-> aligned]))

ResumeNext ==
    \/ StartInterruptible
    \/ ResumeCollect
    \/ CollectSteps

\* The run variables before any run, on a database holding table with a
\* collector of timeframe t.
RunAt(t) ==
    /\ pc = "idle"
    /\ run = "none"
    /\ now = 0
    /\ symbols = <<>>
    /\ timeframe = t
    /\ lookback_days = 0
    /\ update_all = FALSE
    /\ dry_run = FALSE
    /\ coll_batch = 0
    /\ idx = 0
    /\ start = None
    /\ candles = <<>>
    /\ results = <<>>
    /\ error = None
    /\ log = <<>>
    /\ run_pre = {}
    /\ complete = TRUE
    /\ aligned = TRUE
    /\ prior = None
    /\ gaps = <<>>
    /\ gap_idx = 0
    /\ fill_inserted = 0

\* collect runs on databases that hold a series already or none.
InitOfCollect ==
    /\ \E t \in Timeframes : RunAt(t) /\ \E table \in CollectTables(t) : StoreAt(table)
    /\ config = CollectorRetryConfig
    /\ RetryQuiet
    /\ PortfolioEmpty

SpecCollect == InitOfCollect /\ [][CollectNext]_vars

\* Interrupted runs on daily candles and the runs that resume them.
InitOfResume ==
    /\ RunAt("1d")
    /\ \E table \in CollectTables("1d") : StoreAt(table)
    /\ config = CollectorRetryConfig
    /\ RetryQuiet
    /\ PortfolioEmpty

SpecResume == InitOfResume /\ [][ResumeNext]_vars

\* A first run for BTC on a database without data, and the run with
\* update_all that follows it a day or two later.
FirstCollect ==
    /\ pc = "idle"
    /\ \E lookback \in {2, 5}, n \in NowChoices :
        CollectCall(<<"BTC">>, lookback, FALSE, FALSE, CollectorBatchSize, n, None)

SecondCollect ==
    /\ pc = "done"
    /\ run = "collect"
    /\ prior = None
    /\ \E n \in {now + Day, now + 2 * Day} :
        CollectCall(symbols, lookback_days, TRUE, FALSE, coll_batch, n,
                    Some([pre |-> run_pre, results |-> results,
                          complete |-> complete, now |-> now]))

EndToEndNext ==
    \/ FirstCollect
    \/ SecondCollect
    \/ CollectSteps

InitOfEndToEnd ==
    /\ RunAt("1d")
    /\ StoreAt({})
    /\ config = CollectorRetryConfig
    /\ RetryQuiet
    /\ PortfolioEmpty

SpecEndToEnd == InitOfEndToEnd /\ [][EndToEndNext]_vars

(***************************************************************************)
(* collectors/gap_filler.py: GapFiller.                                    *)
(***************************************************************************)
\* Gap(start, end, missing_candles)
Gap(s, e, missing) == [start |-> s, end |-> e, missing_candles |-> missing]

\* GapCheckResult(...)
GapCheckResult(sym, t, from, to, gs) ==
    [symbol |-> sym, timeframe |-> t, checked_from |-> from, checked_to |-> to,
     gaps |-> gs]

\* The sum of missing_candles over the first k gaps of a list.
RECURSIVE MissingUpTo(_, _)
MissingUpTo(gs, k) ==
    IF k = 0 THEN 0 ELSE MissingUpTo(gs, k - 1) + gs[k].missing_candles

\* GapCheckResult.issues_found
issues_found(result) == MissingUpTo(result.gaps, Len(result.gaps))

\* The elements of a set of instants, ascending ("ORDER BY timestamp ASC").
RECURSIVE Ascending(_)
Ascending(S) ==
    IF S = {} THEN <<>>
    ELSE LET m == CHOOSE x \in S : \A y \in S : x <= y
         IN <<m>> \o Ascending(S \ {m})

\* Repository.list_timestamps(symbol, timeframe, provider, start, end)
list_timestamps(table, sym, t, prov, s, e) ==
    Ascending({r.timestamp : r \in {x \in table : /\ x.symbol = Upper(sym)
                                                  /\ x.timeframe = t
                                                  /\ x.provider = prov
                                                  /\ x.timestamp >= s
                                                  /\ x.timestamp <= e}})

\* Bug variant: the gap runs up to the next stored timestamp.
RECURSIVE GapWalkEndAtNext(_, _, _)
GapWalkEndAtNext(prev, rest, iv) ==
    IF rest = <<>> THEN <<>>
    ELSE LET ts == Head(rest)
             delta == ts - prev
             missing == (delta \div iv) - 1
         IN (IF delta > iv + 1 /\ missing > 0
             THEN <<Gap(prev + iv, ts, missing)>>
             ELSE <<>>) \o GapWalkEndAtNext(ts, Tail(rest), iv)

\* Bug variant: every interval of the difference counts as missing.
RECURSIVE GapWalkOffByOne(_, _, _)
GapWalkOffByOne(prev, rest, iv) ==
    IF rest = <<>> THEN <<>>
    ELSE LET ts == Head(rest)
             delta == ts - prev
             missing == delta \div iv
         IN (IF delta > iv + 1 /\ missing > 0
             THEN <<Gap(prev + iv, ts - iv, missing)>>
             ELSE <<>>) \o GapWalkOffByOne(ts, Tail(rest), iv)

\* "prev = timestamps[0]; for ts in timestamps[1:]: ..." of detect_gaps_recent
RECURSIVE GapWalk(_, _, _)
GapWalk(prev, rest, iv) ==
    IF rest = <<>> THEN <<>>
    ELSE LET ts == Head(rest)
             delta == ts - prev
             missing == (delta \div iv) - 1
         IN (IF delta > iv + 1 /\ missing > 0
             THEN <<Gap(prev + iv, ts - iv, missing)>>
             ELSE <<>>) \o GapWalk(ts, Tail(rest), iv)

\* Bug variant: the walk also covers the part of the window that lies before
\* the first stored timestamp, as if a candle were stored three intervals
\* before it.
DetectGapsBeforeFirst(timestamps, iv) ==
    IF Len(timestamps) < 1 THEN <<>>
    ELSE GapWalk(timestamps[1] - 3 * iv, timestamps, iv)

\* The gaps detect_gaps_recent finds in the timestamps it read.
DetectGaps(timestamps, iv) ==
    IF Len(timestamps) < 2 THEN <<>>
    ELSE GapWalk(timestamps[1], Tail(timestamps), iv)

\* Bug variant: a dry run that found gaps goes on to fill them.
SkipsFillOnlyEmpty(gs, dry) == gs = <<>>

\* "if not result.gaps or dry_run: return result, 0"
SkipsFill(gs, dry) == gs = <<>> \/ dry

\* Stored series for the gap runs, as instants: none, one candle, an even
\* series, holes of one and of two candles, two holes, and timestamps that
\* drifted by a second or two.
GapSeries(t) ==
    LET iv == TimeframeDelta(t)
    IN { {}, {Base - iv},
         {Base - 3 * iv, Base - 2 * iv, Base - iv, Base},
         {Base - 3 * iv, Base},
         {Base - 3 * iv, Base - iv},
         {Base - 4 * iv, Base - 2 * iv, Base},
         {Base - 2 * iv, Base - iv + 1},
         {Base - 2 * iv, Base - iv + 2},
         {Base - 3 * iv, Base - iv - 1},
         {Base - 3 * iv, Base - iv + 2} }

GapTables(t) == { {Row("BTC", t, ts) : ts \in series} : series \in GapSeries(t) }

GapSymbols == {"BTC", "btc"}
GapLookbackChoices == {1, 30}

\* The symbol argument of the gap-filler run.
GapSymbol == symbols[1]

\* "result" of fill_gaps_recent: what detect_gaps_recent returned.
GapResult ==
    GapCheckResult(GapSymbol, timeframe, now - lookback_days * Day, now, gaps)

\* detect_gaps_recent (kind "detect") or fill_gaps_recent (kind "fill") is
\* called at time n: detect_gaps_recent awaits list_timestamps.
GapCall(kind, sym, lookback, dry, bs, n) ==
    /\ run' = kind
    /\ now' = n
    /\ symbols' = <<sym>>
    /\ lookback_days' = lookback
    /\ update_all' = FALSE
    /\ dry_run' = dry
    /\ coll_batch' = bs
    /\ idx' = 1
    /\ start' = None
    /\ candles' = <<>>
    /\ results' = <<>>
    /\ error' = None
    /\ log' = <<>>
    /\ run_pre' = market_data
    /\ complete' = TRUE
    /\ aligned' = TRUE
    /\ prior' = None
    /\ gaps' = <<>>
    /\ gap_idx' = 0
    /\ fill_inserted' = 0
    /\ pc' = "g_list"
    /\ UNCHANGED timeframe
    /\ UNCHANGED <<retryVars, storeVars, portfolioVars>>

StartDetect ==
    /\ pc = "idle"
    /\ \E sym \in GapSymbols, lookback \in GapLookbackChoices, n \in NowChoices :
        GapCall("detect", sym, lookback, FALSE, CollectorBatchSize, n)

StartFill ==
    /\ pc = "idle"
    /\ \E sym \in GapSymbols, lookback \in GapLookbackChoices, dry \in BOOLEAN,
          n \in NowChoices :
        GapCall("fill", sym, lookback, dry, CollectorBatchSize, n)

\* Bug variant: the window is the gap itself.
FetchGapUnpadded(g) ==
    /\ start' = Some(g.start)
    /\ log' = Append(log, Event("fetch", GapSymbol, [start |-> g.start, end |-> g.end]))

\* The fetch of gap g is called: the window is the gap widened by one
\* interval on each side.
FetchGap(g) ==
    /\ start' = Some(g.start - TimeframeDelta(timeframe))
    /\ log' = Append(log, Event("fetch", GapSymbol,
                                [start |-> g.start - TimeframeDelta(timeframe),
                                 end |-> g.end + TimeframeDelta(timeframe)]))

\* Bug variant: the count of the filled gaps is dropped.
ReturnFromFillZero(total) ==
    /\ pc' = "done"
    /\ results' = <<[result |-> GapResult, inserted |-> 0]>>

\* "return result, total_inserted"
ReturnFromFill(total) ==
    /\ pc' = "done"
    /\ results' = <<[result |-> GapResult, inserted |-> total]>>

\* list_timestamps returned and detect_gaps_recent walked the timestamps:
\* detect_gaps_recent returns; fill_gaps_recent returns (result, 0) or calls
\* the fetch of the first gap.
ListReturns ==
    /\ pc = "g_list"
    /\ LET timestamps == list_timestamps(market_data, GapSymbol, timeframe,
                                         ProviderName, now - lookback_days * Day, now)
           found == DetectGaps(timestamps, TimeframeDelta(timeframe))
       IN /\ gaps' = found
          /\ IF run = "detect"
             THEN /\ pc' = "done"
                  /\ results' = <<GapCheckResult(GapSymbol, timeframe,
                                                 now - lookback_days * Day, now, found)>>
                  /\ log' = Append(log, Event("list", GapSymbol, timestamps))
                  /\ UNCHANGED <<gap_idx, start, retryVars>>
             ELSE IF SkipsFill(found, dry_run)
             THEN /\ pc' = "done"
                  /\ results' = <<[result |-> GapCheckResult(GapSymbol, timeframe,
                                                 now - lookback_days * Day, now, found),
                                   inserted |-> 0]>>
                  /\ log' = Append(log, Event("list", GapSymbol, timestamps))
                  /\ UNCHANGED <<gap_idx, start, retryVars>>
             ELSE /\ pc' = "g_fetch"
                  /\ gap_idx' = 1
                  /\ start' = Some(found[1].start - TimeframeDelta(timeframe))
                  /\ log' = log \o
                        <<Event("list", GapSymbol, timestamps),
                          Event("fetch", GapSymbol,
                                [start |-> found[1].start - TimeframeDelta(timeframe),
                                 end |-> found[1].end + TimeframeDelta(timeframe)])>>
                  /\ CallRetry
                  /\ UNCHANGED results
    /\ UNCHANGED <<portfolioVars, runParams, idx, candles, error, complete, aligned, fill_inserted>>
    /\ UNCHANGED storeVars

\* The read of list_timestamps raises.
ListFails ==
    /\ pc = "g_list"
    /\ pc' = "raised"
    /\ error' = Some("OperationalError")
    /\ log' = log \o <<Event("list", GapSymbol, <<>>),
                        Event("raised", GapSymbol, "OperationalError")>>
    /\ UNCHANGED <<portfolioVars, runParams, idx, start, candles, results, complete, aligned, gapVars>>
    /\ UNCHANGED <<retryVars, storeVars>>

\* The fetch of the current gap returned: no candles, "continue"; else
\* _to_records and the call of insert_market_data.
GapFetchReturns ==
    /\ pc = "g_fetch"
    /\ rstate = "Success"
    /\ \E resp \in ProviderResponses(start[1],
                                    gaps[gap_idx].end + TimeframeDelta(timeframe),
                                    TimeframeDelta(timeframe)) :
        IF resp = <<>>
        THEN /\ IF gap_idx < Len(gaps)
                THEN /\ gap_idx' = gap_idx + 1
                     /\ pc' = "g_fetch"
                     /\ FetchGap(gaps[gap_idx + 1])
                     /\ RecallRetry
                     /\ UNCHANGED results
                ELSE /\ ReturnFromFill(fill_inserted)
                     /\ DropRetry
                     /\ UNCHANGED <<gap_idx, start, log>>
             /\ UNCHANGED <<candles, error, storeVars>>
        ELSE IF \E k \in 1..Len(resp) : ~RecordValid(resp[k])
        THEN /\ pc' = "raised"
             /\ error' = Some("ValidationError")
             /\ log' = Append(log, Event("raised", GapSymbol, "ValidationError"))
             /\ DropRetry
             /\ UNCHANGED <<gap_idx, start, candles, results, storeVars>>
        ELSE /\ pc' = "g_insert"
             /\ candles' = resp
             /\ log' = Append(log, Event("insert", GapSymbol, Len(resp)))
             /\ BeginInsertCall(ToRecords(GapSymbol, timeframe, resp),
                                Some(coll_batch), None)
             /\ DropRetry
             /\ UNCHANGED <<gap_idx, start, results, error>>
    /\ complete' = (complete /\ candles' = CompleteResponse(start[1],
                                    gaps[gap_idx].end + TimeframeDelta(timeframe),
                                    TimeframeDelta(timeframe)))
    /\ UNCHANGED <<portfolioVars, runParams, idx, aligned, gaps, fill_inserted>>

\* The fetch of the current gap raised: nothing in fill_gaps_recent catches
\* it.
GapFetchRaises ==
    /\ pc = "g_fetch"
    /\ rstate \in {"Exhausted", "NonRetryable", "Failed"}
    /\ pc' = "raised"
    /\ error' = raised
    /\ log' = Append(log, Event("raised", GapSymbol, raised[1]))
    /\ UNCHANGED <<portfolioVars, runParams, idx, start, candles, results, complete, aligned, gapVars>>
    /\ UNCHANGED <<retryVars, storeVars>>

\* insert_market_data returned: "total_inserted += inserted" and the loop
\* goes to the next gap or fill_gaps_recent returns.
GapInsertReturns ==
    /\ pc = "g_insert"
    /\ ipc = "idle"
    /\ outcome # None
    /\ outcome[1].kind = "return"
    /\ fill_inserted' = fill_inserted + outcome[1].value
    /\ IF gap_idx < Len(gaps)
       THEN /\ gap_idx' = gap_idx + 1
            /\ pc' = "g_fetch"
            /\ FetchGap(gaps[gap_idx + 1])
            /\ CallRetry
            /\ UNCHANGED results
       ELSE /\ ReturnFromFill(fill_inserted + outcome[1].value)
            /\ UNCHANGED <<gap_idx, start, log, retryVars>>
    /\ candles' = <<>>
    /\ DropCall
    /\ UNCHANGED <<market_data, ipc, tx_rows>>
    /\ UNCHANGED <<portfolioVars, runParams, idx, error, complete, aligned, gaps>>

\* insert_market_data raised: nothing in fill_gaps_recent catches it.
GapInsertRaises ==
    /\ pc = "g_insert"
    /\ ipc = "idle"
    /\ outcome # None
    /\ outcome[1].kind = "raise"
    /\ pc' = "raised"
    /\ error' = Some(outcome[1].value)
    /\ log' = Append(log, Event("raised", GapSymbol, outcome[1].value))
    /\ UNCHANGED <<portfolioVars, runParams, idx, start, candles, results, complete, aligned, gapVars>>
    /\ UNCHANGED <<retryVars, storeVars>>

GapNext ==
    \/ StartDetect
    \/ StartFill
    \/ ListReturns
    \/ ListFails
    \/ FetchSteps
    \/ GapFetchReturns
    \/ GapFetchRaises
    \/ InsertSteps
    \/ GapInsertReturns
    \/ GapInsertRaises
    \/ RunInterrupted

\* Gap-filler runs on databases that hold a series with or without holes.
InitOfGaps ==
    /\ \E t \in Timeframes : RunAt(t) /\ \E table \in GapTables(t) : StoreAt(table)
    /\ config = CollectorRetryConfig
    /\ RetryQuiet
    /\ PortfolioEmpty

SpecGaps == InitOfGaps /\ [][GapNext]_vars

\* fill_gaps_recent returned and detect_gaps_recent is called at once for the
\* same symbol and window; what the fill returned and met is kept in prior.
DetectAfterFill ==
    /\ pc = "done"
    /\ run = "fill"
    /\ ~dry_run
    /\ prior = None
    /\ run' = "detect"
    /\ prior' = Some([result |-> results[1].result,
                      inserted |-> results[1].inserted,
                      complete |-> complete,
                      stored |-> run_pre])
    /\ run_pre' = market_data
    /\ idx' = 1
    /\ start' = None
    /\ candles' = <<>>
    /\ results' = <<>>
    /\ error' = None
    /\ log' = <<>>
    /\ complete' = TRUE
    /\ aligned' = TRUE
    /\ gaps' = <<>>
    /\ gap_idx' = 0
    /\ fill_inserted' = 0
    /\ pc' = "g_list"
    /\ UNCHANGED <<now, symbols, timeframe, lookback_days, update_all, dry_run, coll_batch>>
    /\ UNCHANGED <<retryVars, storeVars, portfolioVars>>

RepairNext ==
    \/ GapNext
    \/ DetectAfterFill

\* A fill of the gaps and the detection that follows it.
SpecRepair == InitOfGaps /\ [][RepairNext]_vars

\* Both entry points of the synchronisation, on either kind of database.
SyncNext ==
    \/ CollectNext
    \/ StartDetect
    \/ StartFill
    \/ ListReturns
    \/ ListFails
    \/ GapFetchReturns
    \/ GapFetchRaises
    \/ GapInsertReturns
    \/ GapInsertRaises

InitOfSync ==
    /\ \E t \in {"1d", "1w"} :
          RunAt(t) /\ \E table \in CollectTables(t) \cup GapTables(t) : StoreAt(table)
    /\ config = CollectorRetryConfig
    /\ RetryQuiet
    /\ PortfolioEmpty

SpecSync == InitOfSync /\ [][SyncNext]_vars

(***************************************************************************)
(* utils/decimal_math.py, database/models.py (TradeRecord, Position),      *)
(* portfolio/manager.py: PortfolioManager.                                 *)
(* An amount of money is a whole number of units of PRICE_PRECISION, the   *)
(* eighth decimal of a dollar; a quantity is a whole number of coins.      *)
(***************************************************************************)
PRICE_PRECISION == 1
USD_PRECISION == 1000000

\* Decimal("0.01") of validate_total_cost
TotalCostTolerance == 1000000

MaxTrades == 3

AbsOf(x) == IF x >= 0 THEN x ELSE -x

\* (num / den).quantize(precision, rounding=ROUND_HALF_UP): halves go away
\* from zero.
Quantize(num, den, precision) ==
    LET d == den * precision
    IN IF num >= 0
       THEN precision * ((2 * num + d) \div (2 * d))
       ELSE -(precision * ((2 * (-num) + d) \div (2 * d)))

\* round_price(value) for value = num / den
round_price(num, den) == Quantize(num, den, PRICE_PRECISION)

\* round_usd(value)
round_usd(value) == Quantize(value, 1, USD_PRECISION)

\* calculate_average_cost_basis(...): None stands for DecimalError.
calculate_average_cost_basis(existing_quantity, existing_cost_basis, new_quantity, new_price) ==
    IF existing_quantity < 0 \/ new_quantity <= 0 THEN None
    ELSE IF existing_quantity = 0 THEN Some(round_price(new_price, 1))
    ELSE Some(round_price(existing_quantity * existing_cost_basis
                              + new_quantity * new_price,
                          existing_quantity + new_quantity))

\* TradeRecord.validate_total_cost: the value passes.
validate_total_cost(v, data) ==
    AbsOf(v - (data.quantity * data.price + data.fee)) <= TotalCostTolerance

\* TradeRecord(...) passes validation: the Field constraints and the
\* validator of total_cost.
TradeValid(rec) ==
    /\ rec.symbol # ""
    /\ rec.quantity > 0
    /\ rec.price > 0
    /\ rec.fee >= 0
    /\ rec.total_cost > 0
    /\ validate_total_cost(rec.total_cost, rec)

\* TradeRecord(...)
TradeRecord(sym, side, quantity, price, fee, total_cost, timestamp, account) ==
    [symbol |-> Upper(sym), side |-> side, quantity |-> quantity, price |-> price,
     fee |-> fee, total_cost |-> total_cost, timestamp |-> timestamp,
     account |-> account]

\* Position(...) passes validation.
PositionValid(pos) ==
    /\ pos.quantity >= 0
    /\ pos.cost_basis > 0
    /\ pos.total_cost >= 0
    /\ pos.trade_count > 0

\* The trades of a set, by ascending timestamp ("symbol_trades.sort(key=
\* lambda t: t.timestamp)"); the timestamps of the model are distinct.
RECURSIVE ByTimestamp(_)
ByTimestamp(S) ==
    IF S = {} THEN <<>>
    ELSE LET m == CHOOSE x \in S : \A y \in S : x.timestamp <= y.timestamp
         IN <<m>> \o ByTimestamp(S \ {m})

\* "for trade in symbol_trades" of get_all_positions from the k-th trade on,
\* with the running quantity, cost_basis and total_cost; raised reports a
\* DecimalError of calculate_average_cost_basis.
RECURSIVE WalkTrades(_, _, _, _, _)
WalkTrades(symbol_trades, k, quantity, cost_basis, total_cost) ==
    IF k > Len(symbol_trades)
    THEN [raised |-> FALSE, quantity |-> quantity, cost_basis |-> cost_basis,
          total_cost |-> total_cost]
    ELSE LET trade == symbol_trades[k]
         IN IF trade.side = "BUY"
            THEN LET basis == calculate_average_cost_basis(quantity, cost_basis,
                                                            trade.quantity, trade.price)
                 IN IF basis = None
                    THEN [raised |-> TRUE, quantity |-> quantity,
                          cost_basis |-> cost_basis, total_cost |-> total_cost]
                    ELSE WalkTrades(symbol_trades, k + 1, quantity + trade.quantity,
                                    basis[1], total_cost + trade.total_cost)
            ELSE WalkTrades(symbol_trades, k + 1, quantity - trade.quantity, cost_basis,
                            IF quantity - trade.quantity > 0
                            THEN (quantity - trade.quantity) * cost_basis
                            ELSE 0)

\* The rows list_trades(account=account) returns, as a set.
list_trades(table, account) ==
    {table[k] : k \in {j \in 1..Len(table) : table[j].account = account}}

\* The walk of the trades of one symbol and account.
WalkOf(table, sym, account) ==
    WalkTrades(ByTimestamp({t \in list_trades(table, account) : t.symbol = sym}),
               1, 0, 0, 0)

\* The position get_all_positions builds from a finished walk.
PositionOf(table, sym, account) ==
    LET w == WalkOf(table, sym, account)
    IN [symbol |-> sym, quantity |-> w.quantity,
        cost_basis |-> round_price(w.cost_basis, 1),
        total_cost |-> round_usd(w.total_cost), account |-> account,
        trade_count |-> Cardinality({t \in list_trades(table, account) : t.symbol = sym})]

\* PortfolioManager.get_all_positions(account): the dict of the positions,
\* or the error it raises.
get_all_positions(table, account) ==
    LET syms == {t.symbol : t \in list_trades(table, account)}
        held == {sym \in syms : WalkOf(table, sym, account).quantity > 0}
    IN IF \E sym \in syms : WalkOf(table, sym, account).raised
       THEN [kind |-> "raise", value |-> "DecimalError"]
       ELSE IF \E sym \in held : ~PositionValid(PositionOf(table, sym, account))
       THEN [kind |-> "raise", value |-> "ValidationError"]
       ELSE [kind |-> "return",
             value |-> [sym \in held |-> PositionOf(table, sym, account)]]

\* The arguments of a record_trade call; back tells that the caller passes a
\* timestamp of the past.
TradeRequest(sym, side, quantity, price, fee, back) ==
    [symbol |-> sym, side |-> side, quantity |-> quantity, price |-> price,
     fee |-> fee, back |-> back]

\* Prices of 10 and 20 cents; fees of nothing, of less than a cent, of a
\* cent, and of more than any trade is worth.
TradeRequests ==
    {TradeRequest("BTC", "BUY", q, p, 0, FALSE) :
        q \in {1, 2}, p \in {10 * USD_PRECISION, 20 * USD_PRECISION}}
    \cup {TradeRequest("BTC", "SELL", q, 20 * USD_PRECISION, 0, b) :
        q \in {1, 2}, b \in BOOLEAN}
    \cup {TradeRequest("BTC", "SELL", 1, 20 * USD_PRECISION, f, FALSE) :
        f \in {2 * (USD_PRECISION \div 5), USD_PRECISION, 50 * USD_PRECISION}}
    \cup {TradeRequest("BTC", "BUY", 1, 10 * USD_PRECISION, USD_PRECISION, FALSE),
          TradeRequest("eth", "BUY", 1, 10 * USD_PRECISION, 0, FALSE),
          TradeRequest("eth", "SELL", 1, 10 * USD_PRECISION, 0, FALSE)}

\* "timestamp = datetime.now(UTC)" of the call, or the timestamp the caller
\* passes: one that lies between the two trades recorded last.
TradeTimestamp(table, back) ==
    IF back THEN 2 * (Len(table) + 1) - 3 ELSE 2 * (Len(table) + 1)

\* How record_trade ends.
TradeReturns(req, trade) ==
    /\ trades' = Append(trades, trade)
    /\ trade_out' = Some([kind |-> "return", value |-> trade, request |-> req,
                          before |-> trades])

TradeRaises(req, e) ==
    /\ trades' = trades
    /\ trade_out' = Some([kind |-> "raise", value |-> e, request |-> req,
                          before |-> trades])

\* PortfolioManager.record_trade(symbol, side, quantity, price, fee,
\* timestamp, account="default")
RecordTrade ==
    /\ Len(trades) < MaxTrades
    /\ \E req \in TradeRequests :
        LET symbol == NormalizeSymbol(req.symbol)
            timestamp == TradeTimestamp(trades, req.back)
            total_cost == IF req.side = "BUY"
                          THEN round_usd(req.quantity * req.price + req.fee)
                          ELSE round_usd(req.quantity * req.price - req.fee)
            positions == get_all_positions(trades, "default")
            trade == TradeRecord(symbol, req.side, req.quantity, req.price, req.fee,
                                 total_cost, timestamp, "default")
        IN IF req.side = "SELL" /\ positions.kind = "raise"
           THEN TradeRaises(req, positions.value)
           ELSE IF /\ req.side = "SELL"
                   /\ Upper(symbol) \in DOMAIN positions.value
                   /\ positions.value[Upper(symbol)].quantity < req.quantity
           THEN TradeRaises(req, "InsufficientBalanceError")
           ELSE IF ~TradeValid(trade)
           THEN TradeRaises(req, "ValidationError")
           ELSE TradeReturns(req, trade)
    /\ UNCHANGED <<retryVars, storeVars, runVars>>

PortfolioNext == RecordTrade

InitOfPortfolio == RetryIdle /\ StoreInit /\ RunIdle /\ PortfolioEmpty

SpecPortfolio == InitOfPortfolio /\ [][PortfolioNext]_vars

(***************************************************************************)
(* Properties of MarketDataCollector.collect (checked under SpecCollect).  *)
(***************************************************************************)
\* The calendar lengths of the timeframes, in seconds.
SecondsOf(t) ==
    CASE t = "1h" -> 3600
      [] t = "4h" -> 14400
      [] t = "1d" -> 86400
      [] t = "1w" -> 604800

\* The newest stored timestamp of the series of sym, if any.
LastStored(table, sym) ==
    LET ts == {r.timestamp : r \in {x \in table : /\ x.symbol = sym
                                                  /\ x.timeframe = timeframe
                                                  /\ x.provider = "coingecko"}}
    IN IF ts = {} THEN None ELSE Some(CHOOSE m \in ts : \A x \in ts : x <= m)

\* The start the specification prescribes for a series whose newest stored
\* timestamp is last.
ExpectedStart(last) ==
    LET floor == now - lookback_days * 86400
    IN IF last = None THEN floor
       ELSE IF update_all THEN last[1] + SecondsOf(timeframe)
       ELSE IF floor > last[1] + SecondsOf(timeframe)
            THEN floor
            ELSE last[1] + SecondsOf(timeframe)

\* The j-th logged call is a storage read that returned, so that a start was
\* computed from it.
Computed(j) == log[j].op = "latest" /\ "start" \in DOMAIN log[j].arg

\* The position, in the input list, of the symbol the j-th logged call
\* belongs to: the number of storage reads up to it.
LatestCount(j) == Cardinality({i \in 1..j : log[i].op = "latest"})

\* C11: the fetch start collect computes for a symbol is now - lookbackDays
\* when no candle is stored, lastStored + interval when updateAll is set
\* (whatever lookbackDays is, also when that lies before now - lookbackDays),
\* and max(now - lookbackDays, lastStored + interval) otherwise, with the
\* interval fixed per timeframe (1h, 4h, 1d, 1w).
C11_FetchStart ==
    /\ \A j \in 1..Len(log) :
          Computed(j) => log[j].arg.start = ExpectedStart(log[j].arg.latest)
    /\ (Len(log) > 0 /\ Computed(Len(log)))
          => log[Len(log)].arg.latest = LastStored(market_data, log[Len(log)].symbol)
    /\ pc = "c_fetch"
          => start = Some(ExpectedStart(LastStored(market_data, CurrentSymbol)))

\* An updateAll fetch that starts before the lookback window, on 4h candles.
C11_Witness ==
    /\ pc = "c_fetch"
    /\ update_all
    /\ timeframe = "4h"
    /\ LastStored(market_data, CurrentSymbol) # None
    /\ start[1] < now - lookback_days * 86400
    /\ start[1] = LastStored(market_data, CurrentSymbol)[1] + 14400

NoOpResult(sym) ==
    [symbol |-> sym, timeframe |-> timeframe, candles_fetched |-> 0,
     candles_inserted |-> 0, start |-> None, end |-> None]

\* C12: when the computed start is at or after now, the symbol's result is
\* fetched = 0, inserted = 0 without a window, and after the read of the
\* latest timestamp no provider call and no storage call is made for it.
C12_NoOpShortCircuit ==
    \A j \in 1..Len(log) :
        (Computed(j) /\ log[j].arg.start >= now) =>
            /\ j = Len(log) \/ log[j + 1].op = "latest"
            /\ pc # "interrupted" =>
                  /\ LatestCount(j) <= Len(results)
                  /\ results[LatestCount(j)] = NoOpResult(log[j].symbol)

\* A finished run of two symbols: one was up to date, the other was fetched
\* and written.
C12_Witness ==
    /\ pc = "done"
    /\ Len(symbols) = 2
    /\ \E j \in 1..Len(log) : Computed(j) /\ log[j].arg.start >= now
    /\ \E i \in 1..Len(log) : log[i].op = "insert"

RECURSIVE SumInserted(_)
SumInserted(rs) ==
    IF rs = <<>> THEN 0 ELSE Head(rs).candles_inserted + SumInserted(Tail(rs))

\* C14: when the processing of symbol i ends in an error that is not
\* recovered (retries exhausted, a non-retryable error, a storage error),
\* collect raises that error, no call is made for a later symbol, and what
\* was committed before (the earlier symbols' candles and the chunks of
\* symbol i committed before the error) stays stored.
C14_FailFast ==
    \A j \in 1..Len(log) :
        log[j].op = "raised" =>
            /\ j = Len(log)
            /\ pc = "raised"
            /\ error = Some(log[j].arg)
            /\ rstate \in {"Exhausted", "NonRetryable"} => error = outcomes[Len(outcomes)]
            /\ LatestCount(j) = idx
            /\ Len(results) = idx - 1
            /\ run_pre \subseteq market_data
            /\ Cardinality(market_data \ run_pre) = SumInserted(results) + total_inserted

\* The second symbol failed after one of its chunks was committed, the first
\* symbol's candles being stored.
C14_Witness ==
    /\ pc = "raised"
    /\ run = "collect"
    /\ idx = 2
    /\ results[1].candles_inserted > 0
    /\ total_inserted > 0
    /\ Cardinality(market_data \ run_pre) = results[1].candles_inserted + total_inserted

Max3(a, b, c) == IF a >= b /\ a >= c THEN a ELSE IF b >= c THEN b ELSE c
Min3(a, b, c) == IF a <= b /\ a <= c THEN a ELSE IF b <= c THEN b ELSE c

\* C18: every stored candle has positive prices, a volume >= 0, a high that
\* is >= open, close and low, and a low that is <= open, close and high,
\* whatever the provider returned.
C18_StoredCandlesWellFormed ==
    \A r \in market_data :
        /\ r.ohlcv.open > 0 /\ r.ohlcv.high > 0 /\ r.ohlcv.low > 0 /\ r.ohlcv.close > 0
        /\ r.ohlcv.volume >= 0
        /\ r.ohlcv.high >= Max3(r.ohlcv.open, r.ohlcv.close, r.ohlcv.low)
        /\ r.ohlcv.low <= Min3(r.ohlcv.open, r.ohlcv.close, r.ohlcv.high)

\* C19: a collect run works on one symbol at a time, in input order: every
\* call belongs to the symbol whose turn it is, a symbol's read, fetch and
\* write follow each other, the next symbol's read comes after the previous
\* symbol is done, no fetch and write are in progress together, and a run
\* that succeeds returns one result per input symbol in input order.
C19_Sequential ==
    run = "collect" =>
        /\ \A j \in 1..Len(log) :
              /\ LatestCount(j) >= 1
              /\ log[j].symbol = NormalizeSymbol(symbols[LatestCount(j)])
              /\ log[j].op = "fetch" => log[j - 1].op = "latest"
              /\ log[j].op = "insert" => log[j - 1].op = "fetch"
        /\ pc = "c_latest" => LatestCount(Len(log)) = idx - 1 /\ Len(results) = idx - 1
        /\ pc \in {"c_fetch", "c_insert"} =>
              LatestCount(Len(log)) = idx /\ Len(results) = idx - 1
        /\ rstate \in {"Start", "Attempting", "Sleeping", "Success"} =>
              pc = "c_fetch" /\ ipc = "idle"
        /\ ipc # "idle" => pc = "c_insert" /\ rstate = "Idle"
        /\ pc = "done" =>
              /\ Len(results) = Len(symbols)
              /\ \A k \in 1..Len(symbols) :
                    results[k].symbol = NormalizeSymbol(symbols[k])

\* A finished run of two different symbols, both fetched and written.
C19_Witness ==
    /\ pc = "done"
    /\ run = "collect"
    /\ Len(symbols) = 2
    /\ results[1].symbol # results[2].symbol
    /\ results[1].candles_inserted > 0
    /\ results[2].candles_inserted > 0

(***************************************************************************)
(* Properties of the GapFiller (checked under SpecGaps) and of dry runs    *)
(* (checked under SpecSync).                                               *)
(***************************************************************************)
\* C13: with dryRun set, whatever the provider returns and whatever is
\* stored, collect reports inserted = 0 for every symbol, fillGaps reports
\* insertedCount = 0, insert_market_data is never called and the stored
\* series are those the run found.
C13_DryRunPurity ==
    (dry_run /\ run \in {"collect", "fill"}) =>
        /\ market_data = run_pre
        /\ ipc = "idle"
        /\ tx_rows = {}
        /\ \A j \in 1..Len(log) : log[j].op # "insert"
        /\ run = "collect" =>
              \A k \in 1..Len(results) : results[k].candles_inserted = 0
        /\ (run = "fill" /\ pc = "done") => results[1].inserted = 0

\* A finished dry run of collect that fetched candles.
C13_Witness ==
    /\ run = "collect"
    /\ dry_run
    /\ pc = "done"
    /\ Len(results) > 0
    /\ results[1].candles_fetched > 0
    /\ results[1].candles_inserted = 0
    /\ market_data = run_pre

\* A failure met while a gap is being filled.
GapFailed ==
    /\ run = "fill"
    /\ gap_idx >= 1
    /\ \E j \in 1..Len(log) : log[j].op = "raised"

\* C15: when the fetch (after its retries) or the insert of a gap fails,
\* fillGaps does not propagate the failure: it goes on with the later gaps
\* and returns the gap result with the count of the gaps that succeeded.
C15_GapFailureIsolated ==
    GapFailed => /\ pc \in {"g_fetch", "g_insert", "done", "interrupted"}
                 /\ error = None

\* The timestamps the run read from storage.
ListedTimestamps == log[1].arg

\* The pairs of neighbours of a list.
Pairs(T) == [k \in 1..(Len(T) - 1) |-> <<T[k], T[k + 1]>>]

\* A pair that is further apart than one interval and a second, with at
\* least one whole interval missing between its ends.
IsGapPair(p) ==
    /\ p[2] - p[1] > SecondsOf(timeframe) + 1
    /\ ((p[2] - p[1]) \div SecondsOf(timeframe)) - 1 > 0

\* The reference gap list of a list of timestamps.
ReferenceGaps(T) ==
    IF Len(T) < 2 THEN <<>>
    ELSE LET q == SelectSeq(Pairs(T), IsGapPair)
         IN [k \in 1..Len(q) |->
                [start |-> q[k][1] + SecondsOf(timeframe),
                 end |-> q[k][2] - SecondsOf(timeframe),
                 missing_candles |-> ((q[k][2] - q[k][1]) \div SecondsOf(timeframe)) - 1]]

\* The run has read the timestamps and holds what detection made of them.
Detected ==
    /\ run \in {"detect", "fill"}
    /\ pc \notin {"idle", "g_list", "interrupted"}
    /\ error = None \/ gap_idx >= 1

\* C16: detectGaps returns the reference gap list of the stored timestamps
\* of the window, in pair order: nothing for fewer than two timestamps,
\* nothing for an evenly spaced series, and for the pair (t0, t0 + 3 *
\* interval) exactly Gap(t0 + interval, t0 + 2 * interval, 2).
C16_DetectGaps ==
    Detected =>
        /\ ListedTimestamps = Ascending({r.timestamp :
                        r \in {x \in run_pre : /\ x.symbol = "BTC"
                                               /\ x.timeframe = timeframe
                                               /\ x.timestamp >= now - lookback_days * 86400
                                               /\ x.timestamp <= now}})
        /\ gaps = ReferenceGaps(ListedTimestamps)
        /\ (run = "detect" /\ pc = "done") => results[1].gaps = ReferenceGaps(ListedTimestamps)
        /\ Len(ListedTimestamps) < 2 => gaps = <<>>
        /\ (\A k \in 1..(Len(ListedTimestamps) - 1) :
                ListedTimestamps[k + 1] - ListedTimestamps[k] = SecondsOf(timeframe)) => gaps = <<>>
        /\ (Len(ListedTimestamps) = 2 /\ ListedTimestamps[2] = ListedTimestamps[1] + 3 * SecondsOf(timeframe)) =>
              gaps = <<[start |-> ListedTimestamps[1] + SecondsOf(timeframe),
                        end |-> ListedTimestamps[1] + 2 * SecondsOf(timeframe),
                        missing_candles |-> 2]>>

\* detectGaps returned for a series of two candles three intervals apart.
C16_Witness ==
    /\ run = "detect"
    /\ pc = "done"
    /\ Len(ListedTimestamps) = 2
    /\ ListedTimestamps[2] = ListedTimestamps[1] + 3 * SecondsOf(timeframe)
    /\ Len(results[1].gaps) = 1
    /\ results[1].gaps[1].missing_candles = 2

\* C17: fillGaps reads and detects first; when there is no gap, or dryRun
\* is set, it returns that gap result with insertedCount = 0 and makes no
\* provider fetch and no storage write.
C17_DetectFirstThenSkip ==
    run = "fill" =>
        /\ Len(log) >= 1 => log[1].op = "list"
        /\ (Detected /\ error = None /\ (ReferenceGaps(ListedTimestamps) = <<>> \/ dry_run)) =>
              /\ pc = "done"
              /\ Len(log) = 1
              /\ market_data = run_pre
              /\ results = <<[result |-> [symbol |-> symbols[1],
                                          timeframe |-> timeframe,
                                          checked_from |-> now - lookback_days * 86400,
                                          checked_to |-> now,
                                          gaps |-> ReferenceGaps(ListedTimestamps)],
                              inserted |-> 0]>>

\* A dry run of fillGaps that found gaps and returned.
C17_Witness ==
    /\ run = "fill"
    /\ dry_run
    /\ pc = "done"
    /\ gaps # <<>>
    /\ results[1].inserted = 0
    /\ Len(log) = 1

(***************************************************************************)
(* Resuming an interrupted collect run (checked under SpecResume).         *)
(***************************************************************************)
\* The stored timestamps of the series of sym.
SeriesOf(table, sym) ==
    {r.timestamp : r \in {x \in table : /\ x.symbol = sym
                                        /\ x.timeframe = timeframe
                                        /\ x.provider = "coingecko"}}

\* Empty, or without a missing interval between its first and last candle.
Contiguous(table, sym) ==
    LET ts == SeriesOf(table, sym)
    IN \A t \in ts : (\A u \in ts : u <= t) \/ t + SecondsOf(timeframe) \in ts

NoDuplicateKey(table) ==
    \A r1, r2 \in table :
        (/\ r1.symbol = r2.symbol
         /\ r1.timeframe = r2.timeframe
         /\ r1.provider = r2.provider
         /\ r1.timestamp = r2.timestamp) => r1 = r2

RunSymbols == {NormalizeSymbol(symbols[k]) : k \in 1..Len(symbols)}

\* A run with updateAll that resumes an interrupted run of series that were
\* empty or contiguous has finished, the provider having returned every
\* candle of each window it was asked for.
ResumedAndDone ==
    /\ prior # None
    /\ pc = "done"
    /\ update_all
    /\ complete
    /\ \A sym \in RunSymbols : Contiguous(prior[1].pre, sym)

\* The resuming run started each fetch right after the newest stored candle
\* and left every series without duplicate key and without hole.
ResumedWell ==
    /\ \A j \in 1..Len(log) :
          (Computed(j) /\ log[j].arg.latest # None) =>
              log[j].arg.start = log[j].arg.latest[1] + SecondsOf(timeframe)
    /\ NoDuplicateKey(market_data)
    /\ \A sym \in RunSymbols : Contiguous(market_data, sym)

\* C20 as stated: whatever the interrupted run was, the resuming run ends
\* with series that have no duplicate key and no missing interval.
C20_ResumeIsSafe == ResumedAndDone => ResumedWell

\* C20, amended: the same when the interrupted run itself fetched from the
\* newest stored candle on (updateAll, a lookback window reaching back to
\* the stored series, or an empty series) and got every candle of its
\* windows.
C20_ResumeIsSafeAfterAlignedRun ==
    (ResumedAndDone /\ prior[1].aligned /\ prior[1].complete) => ResumedWell

\* The interrupted run had committed some of its candles, and the resuming
\* run added the rest.
C20_Witness ==
    /\ ResumedAndDone
    /\ prior[1].aligned
    /\ prior[1].complete
    /\ prior[1].pre # run_pre
    /\ run_pre # market_data
    /\ Cardinality(SeriesOf(market_data, "BTC")) >= 3

(***************************************************************************)
(* The state machine and the waits of retry_with_backoff (checked under    *)
(* SpecRetryFair and SpecRetry).                                           *)
(***************************************************************************)
\* A transition of the state machine Attempting(n) / Sleeping(delay) /
\* Success / Exhausted / NonRetryable, n being attempt.
MachineStep ==
    \/ /\ rstate = "Start" /\ rstate' = "Attempting"
       /\ attempt = 0 /\ attempt' = 0
    \/ /\ rstate = "Attempting" /\ rstate' = "Success"
       /\ attempt' = attempt
    \/ /\ rstate = "Attempting" /\ rstate' = "Sleeping"
       /\ attempt < config.max_retries
       /\ attempt' = attempt
       /\ delay' = sleeps'[Len(sleeps')]
       /\ Len(sleeps') = Len(sleeps) + 1
    \/ /\ rstate = "Sleeping" /\ rstate' = "Attempting"
       /\ attempt < config.max_retries
       /\ attempt' = attempt + 1
    \/ /\ rstate = "Attempting" /\ rstate' = "Exhausted"
       /\ attempt = config.max_retries
       /\ attempt' = attempt
    \/ /\ rstate = "Attempting" /\ rstate' = "NonRetryable"
       /\ attempt' = attempt

\* C24: for max_retries >= 0 every step of a call is a transition of the
\* state machine (a terminal state has none), the attempt number stays within
\* 0..max_retries, func is invoked at most max_retries + 1 times, and when
\* every attempt and every sleep completes a terminal state is reached.
C24_StateMachine ==
    /\ [][config.max_retries >= 0 => MachineStep]_vars
    /\ [](config.max_retries >= 0 =>
            /\ attempt \in 0..config.max_retries
            /\ Len(outcomes) <= config.max_retries + 1
            /\ rstate \in {"Start", "Attempting", "Sleeping", "Success",
                           "Exhausted", "NonRetryable"})
    /\ (config.max_retries >= 0 =>
            <>(rstate \in {"Success", "Exhausted", "NonRetryable"}))

\* A call that succeeded at its last permitted attempt, after two sleeps.
C24_Witness ==
    /\ rstate = "Success"
    /\ config.max_retries = 2
    /\ attempt = 2
    /\ Len(sleeps) = 2
    /\ Len(outcomes) = 3

\* C25 as stated: every wait between two attempts lasts at most max_delay,
\* whatever the error and the retry_after hint.
C25_WaitAtMostMaxDelay ==
    \A i \in 1..Len(sleeps) : sleeps[i] <= config.max_delay

\* C25, amended: a wait computed by the backoff formula lasts at most
\* max_delay; a wait after a rate-limit error that carries a retry_after hint
\* lasts exactly the hint, also when the hint exceeds max_delay.
C25_ComputedWaitAtMostMaxDelay ==
    \A i \in 1..Len(sleeps) :
        IF outcomes[i][1].cls = "RateLimitError" /\ outcomes[i][1].retry_after # None
        THEN sleeps[i] = outcomes[i][1].retry_after[1]
        ELSE sleeps[i] <= config.max_delay

\* A hinted wait longer than max_delay next to a computed wait that the cap
\* cut down to max_delay.
C25_Witness ==
    \E i, j \in 1..Len(sleeps) :
        /\ outcomes[i][1].retry_after # None
        /\ sleeps[i] > config.max_delay
        /\ outcomes[j][1].retry_after = None
        /\ sleeps[j] = config.max_delay
        /\ config.base_delay * Pow(config.exponential_base, j - 1) > config.max_delay

(***************************************************************************)
(* The gaps GapFiller reports and fills (checked under SpecGaps and        *)
(* SpecRepair).                                                            *)
(***************************************************************************)
IsFetch(ev) == ev.op = "fetch"
IsInsert(ev) == ev.op = "insert"

\* The fetches and the inserts the run has called so far, in call order.
FetchesCalled == SelectSeq(log, IsFetch)
InsertsCalled == SelectSeq(log, IsInsert)

\* The window fillGaps is to request for a gap.
PaddedWindow(g) ==
    [start |-> g.start - SecondsOf(timeframe), end |-> g.end + SecondsOf(timeframe)]

\* C26: fillGaps with dryRun = false takes the gaps one at a time in list
\* order and issues for each one a single fetch of the window [gap.start -
\* interval, gap.end + interval]; an empty response brings no insert and no
\* error, the next gap follows; the returned insertedCount is the number of
\* rows the inserts added, boundary candles already stored not counted.
C26_FillGapsInOrder ==
    (run = "fill" /\ ~dry_run /\ pc # "interrupted" /\ Len(log) >= 1) =>
        /\ Len(FetchesCalled) = gap_idx
        /\ gap_idx <= Len(gaps)
        /\ \A k \in 1..Len(FetchesCalled) :
              /\ FetchesCalled[k].arg = PaddedWindow(gaps[k])
              /\ FetchesCalled[k].symbol = symbols[1]
        /\ Len(InsertsCalled) <= Len(FetchesCalled)
        /\ \A j \in 2..Len(log) :
              log[j].op = "insert" => log[j - 1].op = "fetch"
        /\ (pc = "done" /\ gaps # <<>>) =>
              /\ error = None
              /\ gap_idx = Len(gaps)
              /\ \A j \in 1..Len(log) : log[j].op # "raised"
              /\ results[1].result.gaps = gaps
              /\ run_pre \subseteq market_data
              /\ results[1].inserted = Cardinality(market_data \ run_pre)

\* fillGaps returned after two gaps: the provider had nothing for the first,
\* and of the candles it sent for the second fewer were new than were sent.
C26_Witness ==
    /\ run = "fill"
    /\ ~dry_run
    /\ pc = "done"
    /\ Len(gaps) = 2
    /\ Len(log) = 4
    /\ log[2].op = "fetch"
    /\ log[3].op = "fetch"
    /\ log[4].op = "insert"
    /\ results[1].inserted >= 1
    /\ results[1].inserted < log[4].arg

\* C27: every gap of a gap result is well formed: at least one candle is
\* missing; it lies strictly between two neighbouring stored timestamps prev
\* and ts, prev < start <= end < ts; no stored timestamp lies in [start, end];
\* missing_candles counts the points prev + k * interval (k >= 1) up to end;
\* the gaps are ascending and disjoint; issues_found is the sum of the
\* missing candles.
C27_GapsWellFormed ==
    Detected =>
        LET T == ListedTimestamps
            iv == SecondsOf(timeframe)
        IN /\ \A k \in 1..Len(gaps) :
                /\ gaps[k].missing_candles >= 1
                /\ \E j \in 1..(Len(T) - 1) :
                      /\ T[j] < gaps[k].start
                      /\ gaps[k].start <= gaps[k].end
                      /\ gaps[k].end < T[j + 1]
                      /\ Cardinality({m \in 1..(gaps[k].missing_candles + 1) :
                                          T[j] + m * iv <= gaps[k].end})
                            = gaps[k].missing_candles
                /\ \A j \in 1..Len(T) : T[j] < gaps[k].start \/ T[j] > gaps[k].end
                /\ \A r \in run_pre :
                      (r.symbol = "BTC" /\ r.timeframe = timeframe) =>
                          (r.timestamp < gaps[k].start \/ r.timestamp > gaps[k].end)
           /\ \A k \in 1..(Len(gaps) - 1) : gaps[k].end < gaps[k + 1].start
           /\ (run = "detect" /\ pc = "done") =>
                 issues_found(results[1]) =
                     Cardinality({p \in (1..Len(gaps)) \X (1..4) :
                                     /\ p[2] <= gaps[p[1]].missing_candles
                                     /\ gaps[p[1]].start + (p[2] - 1) * iv <= gaps[p[1]].end})

\* detectGaps returned two gaps, or one gap of two candles.
C27_Witness ==
    /\ run = "detect"
    /\ pc = "done"
    /\ issues_found(results[1]) = 2
    /\ results[1].gaps # <<>>
    /\ results[1].gaps[1].start - ListedTimestamps[1] = SecondsOf(timeframe)

\* C29: on a stored series aligned to the interval grid, after a fillGaps
\* (dryRun = false) whose provider sent every grid candle of each window, the
\* detectGaps that follows over the same window finds no gap, and the
\* insertedCount fillGaps returned equals the issues_found of the gap result
\* it returned.
C29_RepairConverges ==
    (/\ run = "detect"
     /\ pc = "done"
     /\ prior # None
     /\ prior[1].complete
     /\ \A r \in prior[1].stored : r.timestamp % SecondsOf(timeframe) = 0) =>
        /\ results[1].gaps = <<>>
        /\ prior[1].inserted = issues_found(prior[1].result)

\* A fill that repaired two holes, and the detection after it.
C29_Witness ==
    /\ run = "detect"
    /\ pc = "done"
    /\ prior # None
    /\ prior[1].complete
    /\ \A r \in prior[1].stored : r.timestamp % SecondsOf(timeframe) = 0
    /\ Len(prior[1].result.gaps) = 2
    /\ prior[1].inserted = 2
    /\ results[1].gaps = <<>>

\* C30: detectGaps reports only gaps strictly between the first and the last
\* stored timestamp of the window [now - lookbackDays, now]; candles missing
\* before the first or after the last stored timestamp are not reported and
\* fillGaps does not fetch them; detectGaps writes nothing.
C30_GapsInsideStoredRange ==
    Detected =>
        LET T == ListedTimestamps
        IN /\ \A j \in 1..Len(T) :
                T[j] >= now - lookback_days * 86400 /\ T[j] <= now
           /\ \A k \in 1..Len(gaps) :
                T[1] < gaps[k].start /\ gaps[k].end < T[Len(T)]
           /\ \A k \in 1..Len(FetchesCalled) :
                /\ T[1] <= FetchesCalled[k].arg.start
                /\ FetchesCalled[k].arg.end <= T[Len(T)]
           /\ \A r \in market_data \ run_pre :
                r.timestamp > T[1] /\ r.timestamp < T[Len(T)]
           /\ run = "detect" =>
                /\ market_data = run_pre
                /\ FetchesCalled = <<>>
                /\ InsertsCalled = <<>>

\* fillGaps filled a hole of a series that starts two intervals or more
\* after the start of the window and ends an interval or more before now.
C30_Witness ==
    /\ run = "fill"
    /\ pc = "done"
    /\ results[1].inserted >= 1
    /\ ListedTimestamps[1] >= now - lookback_days * 86400 + 2 * SecondsOf(timeframe)
    /\ ListedTimestamps[Len(ListedTimestamps)] + SecondsOf(timeframe) <= now

(***************************************************************************)
(* The end-to-end scenario of collect (checked under SpecEndToEnd).        *)
(***************************************************************************)
\* The first run of the scenario returned: no data before it, five days of
\* lookback, five daily candles from the provider.
FirstRunOfFive ==
    /\ run = "collect"
    /\ pc = "done"
    /\ prior = None
    /\ symbols = <<"BTC">>
    /\ timeframe = "1d"
    /\ lookback_days = 5
    /\ run_pre = {}
    /\ results[1].candles_fetched = 5

\* The second run of the scenario returned: it ran with update_all after a
\* first run that fetched and inserted five candles, and the provider sent
\* the one candle that exists beyond the newest stored one.
SecondRunOfOne ==
    /\ run = "collect"
    /\ pc = "done"
    /\ prior # None
    /\ update_all
    /\ lookback_days = 5
    /\ prior[1].pre = {}
    /\ prior[1].results[1].candles_fetched = 5
    /\ prior[1].results[1].candles_inserted = 5
    /\ complete
    /\ Cardinality({k \in 1..3 : LastStored(run_pre, "BTC")[1] + k * 86400 <= now}) = 1

\* C21: BTC/1d without stored data and lookbackDays = 5: a run whose
\* provider returns 5 daily candles yields fetched = 5, inserted = 5; the
\* next run, with updateAll and one candle beyond the newest stored one,
\* requests the window that starts at lastStored + 1 day, yields fetched = 1,
\* inserted = 1 and leaves 6 stored candles.
C21_EndToEnd ==
    /\ FirstRunOfFive =>
          /\ Len(results) = 1
          /\ results[1].symbol = "BTC"
          /\ results[1].candles_inserted = 5
          /\ Cardinality(market_data) = 5
    /\ SecondRunOfOne =>
          /\ log[1].op = "latest"
          /\ log[1].arg.start = LastStored(run_pre, "BTC")[1] + 86400
          /\ log[2].op = "fetch"
          /\ log[2].arg = [start |-> LastStored(run_pre, "BTC")[1] + 86400, end |-> now]
          /\ Len(SelectSeq(log, IsFetch)) = 1
          /\ Len(results) = 1
          /\ results[1].candles_fetched = 1
          /\ results[1].candles_inserted = 1
          /\ Cardinality(market_data) = 6

\* The second run of the scenario returned with one candle fetched.
C21_Witness ==
    /\ SecondRunOfOne
    /\ results[1].candles_fetched = 1
    /\ Cardinality(market_data) = 6
    /\ Cardinality(run_pre) = 5

(***************************************************************************)
(* Properties of PortfolioManager (checked under SpecPortfolio).           *)
(***************************************************************************)
\* The sum of the quantities of the trades of a side, symbol and account.
RECURSIVE SumQuantity(_, _, _, _)
SumQuantity(table, k, sym, side) ==
    IF k = 0 THEN 0
    ELSE SumQuantity(table, k - 1, sym, side)
         + (IF table[k].symbol = sym /\ table[k].side = side /\ table[k].account = "default"
            THEN table[k].quantity ELSE 0)

\* What the history says is held of a symbol: bought less sold.
Held(table, sym) ==
    SumQuantity(table, Len(table), sym, "BUY") - SumQuantity(table, Len(table), sym, "SELL")

\* The symbol the last record_trade call was about.
LastSymbol == IF trade_out[1].request.symbol = "eth" THEN "ETH" ELSE "BTC"

\* C22: record_trade with side SELL and a quantity greater than what is held
\* of the symbol, nothing held included, raises InsufficientBalanceError and
\* leaves the trade history as it was.
C22_OversellRejected ==
    (/\ trade_out # None
     /\ trade_out[1].request.side = "SELL"
     /\ trade_out[1].request.quantity > Held(trade_out[1].before, LastSymbol)) =>
        /\ trade_out[1].kind = "raise"
        /\ trade_out[1].value = "InsufficientBalanceError"
        /\ trades = trade_out[1].before

\* The quantity of the position reported for a symbol, 0 when none is.
ReportedQuantity(table, sym) ==
    LET res == get_all_positions(table, "default")
    IN IF sym \in DOMAIN res.value THEN res.value[sym].quantity ELSE 0

\* C23: for every history of accepted trades the position of a symbol has
\* the quantity bought less the quantity sold, and recording a SELL leaves
\* the average cost basis of the position as it was.
C23_PositionFromHistory ==
    /\ get_all_positions(trades, "default").kind = "return"
    /\ \A sym \in {"BTC", "ETH"} : ReportedQuantity(trades, sym) = Held(trades, sym)
    /\ (/\ trade_out # None
        /\ trade_out[1].kind = "return"
        /\ trade_out[1].request.side = "SELL"
        /\ get_all_positions(trade_out[1].before, "default").kind = "return"
        /\ LastSymbol \in DOMAIN get_all_positions(trade_out[1].before, "default").value
        /\ LastSymbol \in DOMAIN get_all_positions(trades, "default").value) =>
          get_all_positions(trades, "default").value[LastSymbol].cost_basis
            = get_all_positions(trade_out[1].before, "default").value[LastSymbol].cost_basis

\* C28: a SELL within the holdings succeeds for every fee >= 0 and records
\* total_cost = round_usd(quantity * price - fee).
C28_SellWithFeeAccepted ==
    (/\ trade_out # None
     /\ trade_out[1].request.side = "SELL"
     /\ trade_out[1].request.fee >= 0
     /\ get_all_positions(trade_out[1].before, "default").kind = "return"
     /\ trade_out[1].request.quantity <= ReportedQuantity(trade_out[1].before, LastSymbol)) =>
        /\ trade_out[1].kind = "return"
        /\ trades = Append(trade_out[1].before, trade_out[1].value)
        /\ trade_out[1].value.total_cost =
              round_usd(trade_out[1].request.quantity * trade_out[1].request.price
                        - trade_out[1].request.fee)

====
